---------------------------- MODULE Spec2Model ----------------------------
(***************************************************************************)
(* A model of the workflow engine of the API automation platform:         *)
(*   core/workflow_engine.py      WorkflowEngine (registration, execute,   *)
(*                                run task, planner, validation, stop)     *)
(*   core/execution_context.py    ExecutionContext                         *)
(*   core/workflow_components.py  WorkflowValidator (DFS cycle check)      *)
(*                                                                         *)
(* The engine runs on one asyncio event loop.  A step of the model is what *)
(* one callback of the loop does between two suspension points: a call of  *)
(* the engine's API runs to its end (register_workflow, execute_workflow   *)
(* and stop_workflow_execution never suspend: acquiring a free semaphore   *)
(* does not yield), and the run task _execute_workflow_internal runs from  *)
(* one `await asyncio.gather(...)` to the next.                            *)
(***************************************************************************)
EXTENDS Integers, Sequences, FiniteSets, TLC

(***************************************************************************)
(* Bounds of the model.                                                    *)
(***************************************************************************)
\* executions created (execute_workflow calls that create a context)
MaxExecutions == 2
\* executions created in the specification of a single run
MaxRuns == 1
\* nodes of a definition drawn for the planner / validator specification
MaxNodes == 3
\* edges of a definition drawn for the planner / validator specification
MaxEdges == 3
\* node instances whose status is followed
MaxInstances == 4
\* the largest max_retries argument drawn for retry_with_backoff
MaxRetries == 3

(***************************************************************************)
(* Program constants.                                                      *)
(***************************************************************************)
\* config["engine"]["max_concurrent_workflows"]; the claims' scenario uses 1
max_concurrent_workflows == 1

None == "None"

(***************************************************************************)
(* Sequence helpers.                                                       *)
(***************************************************************************)
Range(s) == {s[i] : i \in DOMAIN s}

RECURSIVE SetToSeq(_)
SetToSeq(S) ==
    IF S = {} THEN <<>>
    ELSE LET x == CHOOSE y \in S : TRUE IN <<x>> \o SetToSeq(S \ {x})

\* a dict after d[k] = v
Put(f, k, v) == [x \in DOMAIN f \cup {k} |-> IF x = k THEN v ELSE f[x]]

(***************************************************************************)
(* Values: what a node returns, a trigger payload, a node's input, a run's *)
(* result.  None is Null, a scalar carries its text and a dict its items.  *)
(***************************************************************************)
Null == [kind |-> "null"]

Scalar(text) == [kind |-> "scalar", text |-> text]

Dict(items) == [kind |-> "dict", items |-> items]

\* a dotted path is the sequence of its parts: "a.b" is <<"a", "b">>
WholeOutput == <<"output">>

\* the trigger_data the callers of execute_workflow pass (the scheduler
\* passes none)
TriggerPayload == Dict([event |-> Scalar("1")])

\* what the execute of node n returns when it succeeds
NodeReturn(n) == Dict([ok |-> Scalar(n)])

\* no input built yet, no run result yet (a built one has a key)
NotPrepared == <<>>

(***************************************************************************)
(* Workflow definitions.  A definition is a record                         *)
(*   id        workflow_def["id"]                                          *)
(*   nodes     the keys of workflow_def["nodes"], in the dict's order      *)
(*   type      node id -> workflow_def["nodes"][n]["type"] (None: absent)  *)
(*   required  node id -> workflow_def["nodes"][n].get("required", True)   *)
(*   edges     workflow_def["edges"], a sequence of [source, target,       *)
(*             source_output, target_input]                                *)
(*   outputs   workflow_def["outputs"]: output name -> [node, path]        *)
(***************************************************************************)
\* an edge with source_output and target_input given
MappedEdge(s, t, path, input) ==
    [source |-> s, target |-> t, source_output |-> path, target_input |-> input]

\* an edge that leaves them out: edge.get("source_output", "output") and
\* edge.get("target_input", source_node)
Edge(s, t) == MappedEdge(s, t, WholeOutput, s)

\* a definition that declares no outputs
NoOutputs == <<>>

\* lines 789-793 as a bug would have them: the outputs are not looked at
OutputNodesMut(def) == {}

\* lines 789-793: the node ids that the declared outputs name
OutputNodes(def) == {def.outputs[o].node : o \in DOMAIN def.outputs}

NodeSet(def) == Range(def.nodes)

\* NodeRegistry.node_types: the registered type names
RegisteredTypes == {"Worker"}

\* NodeRegistry.has_node_type(type_name)
has_node_type(type_name) == type_name \in RegisteredTypes

\* the methods a NodeRegistry has: those of core/node_registry.py and
\* has_node_type
RegistryMethods ==
    {"register_node_type", "create_node", "get_node_types", "has_node_type"}

\* self.node_registry.get_node_class(node_type): the attribute lookup, which
\* raises as the registry has no such method
get_node_class(type_name) ==
    IF "get_node_class" \in RegistryMethods THEN type_name ELSE "AttributeError"

(***************************************************************************)
(* WorkflowEngine._build_execution_plan: leveled topological sort.         *)
(* The result is [ok, plan, error, cycle_nodes]; ok = FALSE stands for the *)
(* raised exception, and then no plan is returned.                         *)
(***************************************************************************)
PlanOk(plan) ==
    [ok |-> TRUE, plan |-> plan, error |-> None, cycle_nodes |-> {}]

PlanRaise(err, stranded) ==
    [ok |-> FALSE, plan |-> <<>>, error |-> err, cycle_nodes |-> stranded]

\* line 627: if source and target
LinkedEdges(def) ==
    {i \in DOMAIN def.edges : def.edges[i].source # None /\ def.edges[i].target # None}

\* lines 621-629: dependencies[target].add(source) for every such edge
Dependencies(def) ==
    [n \in NodeSet(def) |->
        {def.edges[i].source : i \in {j \in LinkedEdges(def) : def.edges[j].target = n}}]

\* lines 643-646 as a bug would have them: the levels found so far are returned
StrandedMut(plan, remaining) == PlanOk(plan)

\* lines 643-646: no node is free of dependencies while nodes remain
Stranded(plan, remaining) == PlanRaise("Cyclic dependency", remaining)

\* lines 636-641: the remaining nodes whose dependency set is empty
FreeNodes(remaining, deps) == {n \in remaining : deps[n] = {}}

\* lines 650-653 as a bug would have them: the level is not removed
DiscardLevelMut(deps, remaining, level) == deps

\* lines 650-653: discard the level's nodes from the remaining dependency sets
DiscardLevel(deps, remaining, level) ==
    [n \in DOMAIN deps |-> IF n \in remaining THEN deps[n] \ level ELSE deps[n]]

RECURSIVE PlanLoop(_, _, _)
\* lines 635-655: the while loop
PlanLoop(remaining, deps, plan) ==
    IF remaining = {} THEN PlanOk(plan)
    ELSE LET level == FreeNodes(remaining, deps)
             rest == remaining \ level
         IN  IF level = {} THEN Stranded(plan, remaining)
             ELSE PlanLoop(rest, DiscardLevel(deps, rest, level), Append(plan, level))

\* dependencies[target] raises KeyError for a target that is no node
DanglingTargets(def) ==
    {def.edges[i].target : i \in LinkedEdges(def)} \ NodeSet(def)

_build_execution_plan(def) ==
    IF DanglingTargets(def) # {} THEN PlanRaise("KeyError", {})
    ELSE PlanLoop(NodeSet(def), Dependencies(def), <<>>)

\* the index of the level that holds node n (0: none)
LevelOf(plan, n) ==
    IF \E i \in DOMAIN plan : n \in plan[i]
    THEN CHOOSE i \in DOMAIN plan : n \in plan[i]
    ELSE 0


(***************************************************************************)
(* WorkflowEngine._validate_workflow_def.  The result is [ok, error,       *)
(* names]: ok = FALSE stands for the raised WorkflowError, error for the   *)
(* kind of its message and names for the identifiers the message holds.    *)
(***************************************************************************)
Valid == [ok |-> TRUE, error |-> None, names |-> {}]

Invalid(err, names) == [ok |-> FALSE, error |-> err, names |-> names]

\* lines 826-832: the nodes whose type is missing or not registered
BadTypeNodes(def) ==
    {i \in DOMAIN def.nodes :
        \/ def.type[def.nodes[i]] = None
        \/ ~has_node_type(def.type[def.nodes[i]])}

\* lines 835-843: the edges with an endpoint that is no node of the definition
BadEdges(def) ==
    {i \in DOMAIN def.edges :
        \/ def.edges[i].source = None
        \/ def.edges[i].target = None
        \/ def.edges[i].source \notin NodeSet(def)
        \/ def.edges[i].target \notin NodeSet(def)}

Min(S) == CHOOSE x \in S : \A y \in S : x <= y

_validate_workflow_def(def) ==
    IF def.nodes = <<>> THEN Invalid("Workflow must define at least one node", {})
    ELSE IF BadTypeNodes(def) # {} THEN
        LET n == def.nodes[Min(BadTypeNodes(def))]
        IN  IF def.type[n] = None
            THEN Invalid("missing type definition", {n})
            ELSE Invalid("Node type is not registered", {def.type[n], n})
    ELSE IF BadEdges(def) # {} THEN
        LET e == def.edges[Min(BadEdges(def))]
        IN  IF e.source = None \/ e.target = None
            THEN Invalid("Edge definition is missing source or target", {})
            ELSE IF e.source \notin NodeSet(def)
            THEN Invalid("Edge source node not found", {e.source})
            ELSE Invalid("Edge target node not found", {e.target})
    ELSE LET p == _build_execution_plan(def)
         IN  IF p.ok THEN Valid
             ELSE IF p.error = "Cyclic dependency"
             THEN Invalid("Workflow definition contains a cycle", p.cycle_nodes)
             ELSE Invalid(p.error, p.cycle_nodes)

(***************************************************************************)
(* WorkflowEngine._is_node_required.                                       *)
(***************************************************************************)
RECURSIVE _is_node_required(_, _)
_is_node_required(node_id, def) ==
    \* nodes_def.get(node_id, {}).get("required", True)
    \/ node_id \notin NodeSet(def)
    \/ def.required[node_id]
    \* the node is used in the workflow outputs
    \/ node_id \in OutputNodes(def)
    \* a downstream node is required
    \/ \E i \in DOMAIN def.edges :
          /\ def.edges[i].source = node_id
          /\ _is_node_required(def.edges[i].target, def)

(***************************************************************************)
(* WorkflowEngine._prepare_node_input and _prepare_workflow_output.        *)
(* node_results is a function from the node ids that have an entry to the  *)
(* values stored for them.                                                 *)
(***************************************************************************)
RECURSIVE Extract(_, _)
\* lines 693-699 and 750-756: follow the parts while the value is a dict
\* that has the part; None otherwise
Extract(value, parts) ==
    IF parts = <<>> THEN value
    ELSE IF value.kind = "dict" /\ Head(parts) \in DOMAIN value.items
    THEN Extract(value.items[Head(parts)], Tail(parts))
    ELSE Null

\* lines 531-534: {"error": str(result), "status": "failed"}
FailureRecord ==
    Dict([error |-> Scalar("error message"), status |-> Scalar("failed")])

\* lines 688-702: the entire output, or the field the path names
RoutedValue(edge, source_result) ==
    IF edge.source_output = WholeOutput THEN source_result
    ELSE Extract(source_result, edge.source_output)

\* lines 690 and 701-702: the key of input_data the value is stored under
RoutedKey(edge) ==
    IF edge.source_output = WholeOutput THEN edge.source ELSE edge.target_input

RECURSIVE InputFrom(_, _, _, _, _)
\* lines 677-704: the loop over the edges, from edge i on
InputFrom(def, node_id, node_results, i, input_data) ==
    IF i > Len(def.edges) THEN input_data
    ELSE LET edge == def.edges[i]
         IN  IF edge.target = node_id /\ edge.source \in DOMAIN node_results
             THEN InputFrom(def, node_id, node_results, i + 1,
                      Put(input_data, RoutedKey(edge),
                          RoutedValue(edge, node_results[edge.source])))
             ELSE InputFrom(def, node_id, node_results, i + 1, input_data)

_prepare_node_input(node_id, def, node_results, trigger_data) ==
    InputFrom(def, node_id, node_results, 1, [trigger |-> trigger_data])

\* lines 724-736 and 759-767: the metadata of the run, by its status
Metadata(status) == Dict([status |-> Scalar(status)])

\* lines 743-757: the entire output, or the field the path names
OutputValue(output_def, node_result) ==
    IF output_def.path = WholeOutput THEN node_result
    ELSE Extract(node_result, output_def.path)

\* lines 738-757: the declared outputs whose node has an entry
DeclaredOutputs(def, node_results) ==
    [o \in {n \in DOMAIN def.outputs : def.outputs[n].node \in DOMAIN node_results} |->
        OutputValue(def.outputs[o], node_results[def.outputs[o].node])]

_prepare_workflow_output(def, node_results, status) ==
    IF DOMAIN def.outputs = {}
    THEN [results |-> Dict(node_results), metadata |-> Metadata(status)]
    ELSE Put(DeclaredOutputs(def, node_results), "__metadata__", Metadata(status))

(***************************************************************************)
(* WorkflowValidator._check_for_cycles (core/workflow_components.py).      *)
(* A connection is [from, to]; an endpoint "node.port" is the sequence     *)
(* <<node, port>> and an endpoint without a dot is <<node>>.  The result   *)
(* is the rendered cycle path (a -> b -> a as <<a, b, a>>) of the raised   *)
(* WorkflowCycleError, or <<>> when the check returns normally.            *)
(***************************************************************************)
\* source_spec.split(".", 1)[0] if "." in source_spec else source_spec
SourceNodeId(spec) == spec[1]

\* target_spec.split(".", 1)[0] if "." in target_spec else None
TargetNodeId(spec) == IF Len(spec) = 2 THEN spec[1] ELSE None

\* lines 216-227: graph[u], the targets of u's connections from the i-th
\* on, in their order
AdjacencyFrom(conns, u, i) ==
    LET feeds(c) == /\ c.from # None /\ c.to # None
                    /\ SourceNodeId(c.from) = u
                    /\ TargetNodeId(c.to) # None
        mine == SelectSeq(SubSeq(conns, i, Len(conns)), feeds)
    IN  [k \in 1..Len(mine) |-> TargetNodeId(mine[k].to)]

Graph(nodes, conns) == [u \in Range(nodes) |-> AdjacencyFrom(conns, u, 1)]

\* graph.get(u, [])
Successors(graph, u) == IF u \in DOMAIN graph THEN graph[u] ELSE <<>>

IndexOf(path, v) == Min({i \in DOMAIN path : path[i] = v})

RECURSIVE DfsVisit(_, _, _, _)
RECURSIVE DfsChildren(_, _, _, _, _)
\* lines 241-261: _dfs_cycle_check_recursive; the recursion stack is the set
\* of the nodes of current_path
DfsVisit(u, graph, visited, path) ==
    DfsChildren(u, graph, 1, visited \cup {u}, Append(path, u))

\* lines 246-257: the loop over graph.get(u, [])
DfsChildren(u, graph, i, visited, path) ==
    IF i > Len(Successors(graph, u)) THEN [visited |-> visited, cycle |-> <<>>]
    ELSE LET v == Successors(graph, u)[i] IN
         IF v \notin visited THEN
             LET r == DfsVisit(v, graph, visited, path)
             IN  IF r.cycle # <<>> THEN r
                 ELSE DfsChildren(u, graph, i + 1, r.visited, path)
         ELSE IF v \in Range(path) THEN
             [visited |-> visited,
              cycle |-> SubSeq(path, IndexOf(path, v), Len(path)) \o <<v>>]
         ELSE DfsChildren(u, graph, i + 1, visited, path)

RECURSIVE DfsRoots(_, _, _, _)
\* lines 232-239: for node_id in nodes: if node_id not in visited: dfs
DfsRoots(nodes, graph, i, visited) ==
    IF i > Len(nodes) THEN <<>>
    ELSE IF nodes[i] \in visited THEN DfsRoots(nodes, graph, i + 1, visited)
    ELSE LET r == DfsVisit(nodes[i], graph, visited, <<>>)
         IN  IF r.cycle # <<>> THEN r.cycle
             ELSE DfsRoots(nodes, graph, i + 1, r.visited)

_check_for_cycles(nodes, conns) == DfsRoots(nodes, Graph(nodes, conns), 1, {})


(***************************************************************************)
(* The definitions the engine is driven with.                              *)
(*   pipeline  a -> y and x -> y; a is required, x and y are optional      *)
(*             (required: false, no declared output): levels {a, x}, {y}   *)
(*   bogus     one node of the unregistered type "Bogus"                   *)
(*   cyclic    a -> y -> a                                                 *)
(*   shadow    the id of pipeline, with a node of unregistered type        *)
(*   ticker    one required node, with an interval schedule                *)
(***************************************************************************)
DefNames == {"pipeline", "bogus", "cyclic", "shadow"}

CatalogueNodes == {"a", "x", "y"}

Definition(d) ==
    CASE d = "pipeline" ->
           [id |-> "w1", nodes |-> <<"a", "x", "y">>,
            type |-> [n \in {"a", "x", "y"} |-> "Worker"],
            required |-> [n \in {"a", "x", "y"} |-> n = "a"],
            edges |-> <<Edge("a", "y"), Edge("x", "y")>>, outputs |-> NoOutputs]
      [] d = "bogus" ->
           [id |-> "w3", nodes |-> <<"a">>,
            type |-> [n \in {"a"} |-> "Bogus"],
            required |-> [n \in {"a"} |-> TRUE],
            edges |-> <<>>, outputs |-> NoOutputs]
      [] d = "cyclic" ->
           [id |-> "w4", nodes |-> <<"a", "y">>,
            type |-> [n \in {"a", "y"} |-> "Worker"],
            required |-> [n \in {"a", "y"} |-> TRUE],
            edges |-> <<Edge("a", "y"), Edge("y", "a")>>, outputs |-> NoOutputs]
      [] d = "shadow" ->
           [id |-> "w1", nodes |-> <<"a">>,
            type |-> [n \in {"a"} |-> "Bogus"],
            required |-> [n \in {"a"} |-> TRUE],
            edges |-> <<>>, outputs |-> NoOutputs]
      [] d = "ticker" ->
           [id |-> "w5", nodes |-> <<"a">>,
            type |-> [n \in {"a"} |-> "Worker"],
            required |-> [n \in {"a"} |-> TRUE],
            edges |-> <<>>, outputs |-> NoOutputs]
      [] d = "dangling" ->
           [id |-> "w6", nodes |-> <<"a">>,
            type |-> [n \in {"a"} |-> "Worker"],
            required |-> [n \in {"a"} |-> TRUE],
            edges |-> <<Edge("a", "ghost")>>, outputs |-> NoOutputs]
      [] d = "ghostout" ->
           [id |-> "w7", nodes |-> <<"a">>,
            type |-> [n \in {"a"} |-> "Worker"],
            required |-> [n \in {"a"} |-> TRUE],
            edges |-> <<>>,
            outputs |-> [result |-> [node |-> "ghost", path |-> WholeOutput]]]

\* workflow_def.get("schedule", {}): interval_seconds is 0 where the
\* definition declares no schedule
Schedule(d) ==
    IF d = "ticker" THEN [type |-> "interval", interval_seconds |-> 1]
    ELSE [type |-> None, interval_seconds |-> 0]

\* workflow_def.get("error_handling", {}).get("retry", {}): max_retries is 0
\* where the definition configures no retry
ErrorHandling(d) ==
    IF d = "pipeline" THEN [max_retries |-> 2] ELSE [max_retries |-> 0]

\* The node classes of the catalogue are those the engine can hold in
\* context.active_nodes: their constructor takes the keywords of lines
\* 452-457 (node_id, name, description), they have the configure of line 467
\* and the id and name that lines 557-601 read of every node that executes.
\* NodeBase and the classes of src/nodes are not among them: their
\* constructors raise on these keywords or on the abstract methods, which is
\* the "__init__" step of StartRun.  Line 215 reads the same node.id.
\*
\* what the stop() of a node of the definition does when line 213 calls it:
\* "returns" (a plain method that runs to its end), "coroutine" (the async def
\* that NodeBase gives a class, node_base.py lines 153-163: the call makes a
\* coroutine object that nothing awaits, so the body does not run),
\* "Exception" (it raises one) or "CancelledError" (it raises a BaseException
\* that is no Exception).  A node with two of them does either.
StopBehaviour(d, n) ==
    IF d # "pipeline" THEN {"returns"}
    ELSE IF n = "a" THEN {"Exception"}
    ELSE IF n = "x" THEN {"Exception", "CancelledError"}
    ELSE {"coroutine"}

(***************************************************************************)
(* The definitions drawn for the planner and the validators: the nodes     *)
(* n1..nk and every edge set over them of at most MaxEdges edges, as the   *)
(* engine reads it (edges) and as WorkflowValidator reads it (connections  *)
(* from "s" to "t.input").                                                 *)
(***************************************************************************)
NodeNames == <<"n1", "n2", "n3", "n4", "n5", "n6">>

DrawnNodes(k) == SubSeq(NodeNames, 1, k)

EdgeSets(k) ==
    {E \in SUBSET (Range(DrawnNodes(k)) \X Range(DrawnNodes(k))) :
        Cardinality(E) <= MaxEdges}

RECURSIVE PairsToEdges(_)
PairsToEdges(pairs) ==
    IF pairs = <<>> THEN <<>>
    ELSE <<Edge(pairs[1][1], pairs[1][2])>> \o PairsToEdges(Tail(pairs))

DrawnDefinition(k, E) ==
    [id |-> "drawn", nodes |-> DrawnNodes(k),
     type |-> [n \in Range(DrawnNodes(k)) |-> "Worker"],
     required |-> [n \in Range(DrawnNodes(k)) |-> TRUE],
     edges |-> PairsToEdges(SetToSeq(E)), outputs |-> NoOutputs]

DrawnDefinitions ==
    UNION {{DrawnDefinition(k, E) : E \in EdgeSets(k)} : k \in 1..MaxNodes}

\* the connections of WorkflowDefinition for the edges of a definition
Connections(def) ==
    [i \in DOMAIN def.edges |->
        [from |-> <<def.edges[i].source>>, to |-> <<def.edges[i].target, "input">>]]

(***************************************************************************)
(* utils/retry_mechanism.py: retry_with_backoff.                           *)
(* An exception is [type, transient, id]: its class, an attribute that a   *)
(* retry_if predicate reads, and the invocation that raised it (its        *)
(* identity).  What the decorated function does at an invocation is "ok"   *)
(* (it returns) or the key of the exception it raises; "cancelled" is the  *)
(* invocation that the cancellation of the call ended.                     *)
(***************************************************************************)
\* retry_with_backoff defaults: base_delay (seconds) and max_delay (seconds)
base_delay == 1

max_delay == 10

\* random.uniform(0.8, 1.2), in tenths: its ends and its middle
Jitter == {8, 10, 12}

Outcomes == {"ok", "timeout", "timeout_permanent", "value_error"}

NoError == [type |-> None, transient |-> FALSE, id |-> 0]

\* the exception the i-th invocation raises
ExceptionOf(outcome, i) ==
    CASE outcome = "timeout" -> [type |-> "TimeoutError", transient |-> TRUE, id |-> i]
      [] outcome = "timeout_permanent" -> [type |-> "TimeoutError", transient |-> FALSE, id |-> i]
      [] outcome = "value_error" -> [type |-> "ValueError", transient |-> TRUE, id |-> i]
      [] OTHER -> NoError

\* the retry_on arguments drawn: the default (Exception,) and one class
RetryOnChoices == {{"Exception"}, {"TimeoutError"}}

\* the retry_if arguments drawn: None and lambda e: e.transient
RetryIfChoices == {None, "transient"}

\* line 63 as a bug would have it: every exception is caught
CatchesMut(exceptions, e) == TRUE

\* line 63: except exceptions as e (every class drawn derives from Exception)
Catches(exceptions, e) == "Exception" \in exceptions \/ e.type \in exceptions

\* line 71: retry_if(e)
retry_if(predicate, e) == IF predicate = "transient" THEN e.transient ELSE TRUE

\* lines 66-71 as a bug would have them: one retry too few
should_retry_mut(attempt, retries, predicate, e) ==
    IF attempt + 1 < retries /\ predicate # None THEN retry_if(predicate, e)
    ELSE attempt + 1 < retries

\* lines 66-71: should_retry
should_retry(attempt, retries, predicate, e) ==
    IF attempt < retries /\ predicate # None THEN retry_if(predicate, e)
    ELSE attempt < retries

MinOf(a, b) == IF a < b THEN a ELSE b

\* lines 78-80: wait = min(max_wait, delay * 2 ** (attempt - 1)) * jitter,
\* in tenths of a second
Backoff(attempt, jitter) == MinOf(max_delay, base_delay * 2 ^ (attempt - 1)) * jitter

\* line 75 as a bug would have it: the failure is wrapped in a new exception
PropagatedMut(e) == [type |-> "RetryError", transient |-> FALSE, id |-> e.id]

\* line 75: raise (the exception being handled, as it is)
Propagated(e) == e

\* the CancelledError that the cancellation of the call throws into it: it
\* derives from BaseException, so that no retry_on class catches it
CancelledError == [type |-> "CancelledError", transient |-> FALSE, id |-> 0]

\* the wrapper before its first invocation of the function; calls is what
\* each invocation that has ended did
WrapperEntered ==
    [state |-> "running", attempt |-> 0, invocations |-> 0, sleeps |-> 0,
     wait |-> 0, result |-> 0, error |-> NoError, calls |-> <<>>]

(***************************************************************************)
(* State.                                                                  *)
(***************************************************************************)
VARIABLES
    workflows,            \* WorkflowEngine.workflows: id -> definition
    workflow_status,      \* WorkflowEngine.workflow_status: id -> status
    active_executions,    \* the keys of WorkflowEngine.active_executions
    execution_semaphore,  \* the free permits of WorkflowEngine.execution_semaphore
    contexts,             \* every ExecutionContext created, by execution id
    last_execution_time,  \* workflow id -> whether the stored definition has
                          \* a "last_execution_time" ("set") or not (None)
    raised,               \* the exception the step's API call raised
    unknown_stops,        \* the execution ids stop_workflow_execution has
                          \* logged "No active execution with ID" for
    running,              \* WorkflowEngine.running
    scheduler_task,       \* WorkflowEngine.scheduler_task: None, or the state
                          \* of the asyncio task of _scheduler
    definition,           \* the definition given to the planner and validators
    analysed,             \* which of them have run on it
    plan_result,          \* what _build_execution_plan returned or raised
    validation_result,    \* what _validate_workflow_def returned or raised
    cycle_result,         \* what _check_for_cycles rendered (<<>>: no cycle)
    wrapped,              \* a retry_with_backoff decoration: its arguments and
                          \* what the decorated function does at each invocation
    wrapper,              \* the state of one call of the wrapper
    drawn_results,        \* a context.node_results the data-flow functions read
    drawn_trigger,        \* a context.trigger_data they read
    node_inputs,          \* node id -> what _prepare_node_input returned for it
    run_output,           \* what _prepare_workflow_output returned
    required_nodes,       \* the nodes _is_node_required returned True for
    validation,           \* one call of WorkflowValidator.validate_workflow:
                          \* its argument, its position and its findings
    node_status           \* NodeBase.status of each node instance

\* start() and stop(): the engine's running flag and its scheduler task
lifecycle_vars == <<running, scheduler_task>>

\* what the scheduler writes into the stored definitions
schedule_vars == <<last_execution_time>>

\* what the engine has written to its log
log_vars == <<unknown_stops>>

engine_vars ==
    <<workflows, workflow_status, active_executions, execution_semaphore,
      contexts, raised, lifecycle_vars, schedule_vars, log_vars>>

plan_vars == <<definition, analysed, plan_result, validation_result, cycle_result>>

retry_vars == <<wrapped, wrapper>>

\* the variables of the specifications of the pure functions and utilities
flow_vars == <<drawn_results, drawn_trigger, node_inputs, run_output, required_nodes>>

\* the variables of the specifications of the validator and of the nodes
component_vars == <<validation, node_status>>

pure_vars == <<plan_vars, retry_vars, flow_vars, component_vars>>

vars == <<engine_vars, pure_vars>>

\* no exception: the call returned
NoException == [error |-> None, cause |-> None, names |-> {}]

\* lines 99-101: WorkflowError(f"Failed to register workflow: {str(e)}")
RegisterError(v) ==
    [error |-> "Failed to register workflow", cause |-> v.error, names |-> v.names]

\* WorkflowEngine.__init__
EngineInit ==
    /\ workflows = <<>>
    /\ workflow_status = <<>>
    /\ active_executions = {}
    /\ execution_semaphore = max_concurrent_workflows
    /\ contexts = <<>>
    /\ raised = NoException
    /\ unknown_stops = {}
    /\ running = FALSE
    /\ scheduler_task = None
    /\ last_execution_time = <<>>

\* no decorated call is under way
RetryIdle ==
    /\ wrapped = [max_retries |-> 3, retry_on |-> {"Exception"}, retry_if |-> None,
                  outcomes |-> <<"ok">>]
    /\ wrapper = [WrapperEntered EXCEPT !.state = "idle"]

\* no data-flow function has been applied
FlowIdle ==
    /\ drawn_results = <<>>
    /\ drawn_trigger = Dict(<<>>)
    /\ node_inputs = NotPrepared
    /\ run_output = NotPrepared
    /\ required_nodes = {}

\* no validator call is under way and no node instance exists
NoValidation ==
    [workflow |-> None, stage |-> "idle", errors |-> <<>>, raised |-> None]

ComponentIdle ==
    /\ validation = NoValidation
    /\ node_status = <<>>

PlanIdle(def) ==
    /\ definition = def
    /\ analysed = {}
    /\ plan_result = PlanRaise("pending", {})
    /\ validation_result = Invalid("pending", {})
    /\ cycle_result = <<>>


(***************************************************************************)
(* The planner and the validators applied to a drawn definition.           *)
(***************************************************************************)
PlanInit ==
    /\ EngineInit
    /\ ComponentIdle
    /\ RetryIdle
    /\ FlowIdle
    /\ \E def \in DrawnDefinitions : PlanIdle(def)

\* plan = engine._build_execution_plan(definition)
Plan ==
    /\ "plan" \notin analysed
    /\ analysed' = analysed \cup {"plan"}
    /\ plan_result' = _build_execution_plan(definition)
    /\ UNCHANGED <<definition, validation_result, cycle_result, engine_vars, retry_vars, flow_vars,
                 component_vars>>

\* engine._validate_workflow_def(definition)
Validate ==
    /\ "validate" \notin analysed
    /\ analysed' = analysed \cup {"validate"}
    /\ validation_result' = _validate_workflow_def(definition)
    /\ UNCHANGED <<definition, plan_result, cycle_result, engine_vars, retry_vars, flow_vars,
                 component_vars>>

\* validator._check_for_cycles(nodes, connections)
CheckCycles ==
    /\ "cycles" \notin analysed
    /\ analysed' = analysed \cup {"cycles"}
    /\ cycle_result' = _check_for_cycles(definition.nodes, Connections(definition))
    /\ UNCHANGED <<definition, plan_result, validation_result, engine_vars, retry_vars, flow_vars,
                 component_vars>>

PlanNext == Plan \/ Validate \/ CheckCycles

SpecPlan == PlanInit /\ [][PlanNext]_vars

(***************************************************************************)
(* Graph notions the properties are stated with.                           *)
(***************************************************************************)
EdgePairs(def) == {<<def.edges[i].source, def.edges[i].target>> : i \in DOMAIN def.edges}

RECURSIVE ReachableFrom(_, _)
\* the nodes reached from the set S by one edge or more
ReachableFrom(S, E) ==
    LET next == S \cup {e[2] : e \in {f \in E : f[1] \in S}}
    IN  IF next = S THEN S ELSE ReachableFrom(next, E)

Descendants(n, E) == ReachableFrom({e[2] : e \in {f \in E : f[1] = n}}, E)

\* the nodes that lie on a cycle of the definition's edge relation
OnCycle(def) == {n \in NodeSet(def) : n \in Descendants(n, EdgePairs(def))}

\* the definition's cycles are one simple cycle: its nodes reach each other
\* and each has one edge that stays on it
SingleCycle(def) ==
    /\ OnCycle(def) # {}
    /\ \A n \in OnCycle(def) :
          /\ OnCycle(def) \subseteq Descendants(n, EdgePairs(def))
          /\ Cardinality({e \in EdgePairs(def) : e[1] = n /\ e[2] \in OnCycle(def)}) = 1

IsCyclePath(path, E) ==
    /\ Len(path) >= 2
    /\ path[1] = path[Len(path)]
    /\ \A i \in 1..(Len(path) - 1) : <<path[i], path[i + 1]>> \in E

(***************************************************************************)
(* C4.  For every acyclic definition whose edge endpoints are defined      *)
(* nodes, the planner returns levels that hold every defined node exactly  *)
(* once, and every edge's source is in a strictly earlier level than its   *)
(* target.                                                                 *)
(***************************************************************************)
C4_PlanCoversAndOrders ==
    ("plan" \in analysed /\ OnCycle(definition) = {} /\ BadEdges(definition) = {}) =>
        /\ plan_result.ok
        /\ \A i \in DOMAIN plan_result.plan : plan_result.plan[i] \subseteq NodeSet(definition)
        /\ \A n \in NodeSet(definition) :
              Cardinality({i \in DOMAIN plan_result.plan : n \in plan_result.plan[i]}) = 1
        /\ \A e \in EdgePairs(definition) :
              LevelOf(plan_result.plan, e[1]) < LevelOf(plan_result.plan, e[2])

\* a chain of three nodes has been planned into three levels
C4_Witness ==
    /\ "plan" \in analysed
    /\ OnCycle(definition) = {}
    /\ Len(definition.edges) >= 2
    /\ plan_result.ok
    /\ Len(plan_result.plan) = 3

(***************************************************************************)
(* C5.  For every definition whose edge relation has a cycle (self-loops   *)
(* included): the planner raises, returns no plan, and names every node    *)
(* that lies on a cycle; the engine's validation fails with the cycle      *)
(* message, naming the same nodes; the validator's cycle check raises,     *)
(* and the path it renders is a cycle of the definition that names every   *)
(* node of that cycle (every node on a cycle, when the definition has one  *)
(* cycle only).                                                            *)
(***************************************************************************)
C5_CycleReported ==
    OnCycle(definition) # {} =>
        /\ "plan" \in analysed =>
              /\ ~plan_result.ok
              /\ plan_result.plan = <<>>
              /\ plan_result.error = "Cyclic dependency"
              /\ OnCycle(definition) \subseteq plan_result.cycle_nodes
        /\ "validate" \in analysed =>
              /\ ~validation_result.ok
              /\ validation_result.error = "Workflow definition contains a cycle"
              /\ OnCycle(definition) \subseteq validation_result.names
        /\ "cycles" \in analysed =>
              /\ IsCyclePath(cycle_result, EdgePairs(definition))
              /\ Range(cycle_result) \subseteq OnCycle(definition)
              /\ SingleCycle(definition) => Range(cycle_result) = OnCycle(definition)

\* a definition with a self-loop and a definition with a longer cycle, on
\* which the planner, the validation and the cycle check have all run
C5_Witness ==
    /\ analysed = {"plan", "validate", "cycles"}
    /\ Cardinality(OnCycle(definition)) >= 2
    /\ \E n \in NodeSet(definition) : <<n, n>> \in EdgePairs(definition)
    /\ ~plan_result.ok
    /\ cycle_result # <<>>


(***************************************************************************)
(* The engine.                                                             *)
(*                                                                         *)
(* An ExecutionContext is a record                                         *)
(*   workflow_id, def   the workflow's id and the definition it runs       *)
(*   status, error, end_time   as in ExecutionContext (end_time: is set)   *)
(*   active_nodes       the node ids of context.active_nodes               *)
(*   node_results       node id -> None, "result", "failed" (the record    *)
(*                      {"error": ..., "status": "failed"}) or             *)
(*                      "CancelledError" (the exception object itself)     *)
(*   task               context.task, the asyncio task of the run:         *)
(*                      "pending" (created, not yet run), "suspended" (in  *)
(*                      await asyncio.gather), "finished", "raised" or     *)
(*                      "cancelled"                                        *)
(*   must_cancel        task.cancel() was called and is not yet delivered  *)
(*   level              the index of the level the run awaits              *)
(*   node_exec          node id -> what became of the node's execute:      *)
(*                      "pending" (not invoked), "running", "completed",   *)
(*                      "failed" (it raised) or "cancelled"                *)
(*   node_raised        node id -> the class of what its execute raised    *)
(*   finished           the nodes whose execute has ended, in the order     *)
(*                      in which it did                                     *)
(*   status_log         the values context.status has been assigned, in     *)
(*                      order: a task step that assigns it twice (line 338  *)
(*                      and a handler) leaves both                          *)
(*   stopped_nodes      the nodes whose stop() line 213 has called          *)
(*   stop_ran           those of them whose stop() ran to its end           *)
(*   stop_errors        those of them whose stop() raised an Exception,     *)
(*                      which line 214 caught                               *)
(***************************************************************************)
ExecutionIds == 1..MaxExecutions

\* what a node's execute raises: an Exception, or asyncio.CancelledError,
\* which is a BaseException and no Exception
NodeErrors == {"Exception", "CancelledError"}

\* the CancelledError instance that gather returns for a node, as a value:
\* it has no fields and its text is empty
CancelledErrorObject == Scalar("")

\* the node whose return value a bug would store for node n: the results of
\* the level taken in the order in which the nodes ended (as
\* asyncio.as_completed gives them) and paired by position with the level's
\* node ids
ByCompletion(c, n) ==
    LET def == Definition(c.def)
        level == CHOOSE L \in Range(_build_execution_plan(def).plan) : n \in L
        ids == SelectSeq(def.nodes, LAMBDA m : m \in level)
        done == SelectSeq(c.finished, LAMBDA m : m \in level)
        i == CHOOSE j \in DOMAIN ids : ids[j] = n
    IN  IF i <= Len(done) THEN done[i] ELSE n

\* the results as a bug would store them: by the order of completion
StoredResultsMut(c) ==
    [n \in {m \in DOMAIN c.node_results : c.node_results[m] # None} |->
        IF c.node_results[n] = "failed" THEN FailureRecord
        ELSE IF c.node_results[n] = "CancelledError" THEN CancelledErrorObject
        ELSE NodeReturn(ByCompletion(c, n))]

\* context.node_results as it is stored: the model keeps for each node what
\* kind of entry it has (None: no entry), and this is the dict itself.  The
\* gather of line 517 returns the results in the order of its arguments,
\* whatever the order the nodes ended in, so that line 521 pairs each node
\* id with the result of its own node.
StoredResults(c) ==
    [n \in {m \in DOMAIN c.node_results : c.node_results[m] # None} |->
        IF c.node_results[n] = "failed" THEN FailureRecord
        ELSE IF c.node_results[n] = "CancelledError" THEN CancelledErrorObject
        ELSE NodeReturn(n)]

\* line 170: trigger_data or {} for a call that passes no trigger data
NoTrigger == Dict(<<>>)

\* ExecutionContext.__init__
NewContext(workflow_id, d, trigger_data) ==
    [workflow_id |-> workflow_id, def |-> d, status |-> "created", error |-> None,
     status_log |-> <<"created">>, finished |-> <<>>,
     end_time |-> FALSE, active_nodes |-> {},
     node_results |-> [n \in NodeSet(Definition(d)) |-> None],
     task |-> None, must_cancel |-> FALSE, level |-> 0,
     node_exec |-> [n \in NodeSet(Definition(d)) |-> "pending"],
     trigger_data |-> trigger_data,
     node_input |-> [n \in NodeSet(Definition(d)) |-> NotPrepared],
     result |-> NotPrepared,
     stopped_nodes |-> {}, stop_ran |-> {}, stop_errors |-> {},
     node_calls |-> [n \in NodeSet(Definition(d)) |-> <<>>],
     node_raised |-> [n \in NodeSet(Definition(d)) |-> None],
     retry_count |-> 0]

\* WorkflowEngine.register_workflow(workflow_def): the definition passed is
\* one as it was loaded, without a "last_execution_time"
Register(d) ==
    LET def == Definition(d)
        v == _validate_workflow_def(def)
    IN  /\ IF v.ok
           THEN /\ workflows' = Put(workflows, def.id, d)
                /\ workflow_status' = Put(workflow_status, def.id, "REGISTERED")
                /\ last_execution_time' = Put(last_execution_time, def.id, None)
                /\ raised' = NoException
           ELSE /\ raised' = RegisterError(v)
                /\ UNCHANGED <<workflows, workflow_status, last_execution_time>>
        /\ UNCHANGED <<active_executions, execution_semaphore, contexts, pure_vars, log_vars, lifecycle_vars>>

\* async with self.execution_semaphore: __aenter__ takes a permit (a free
\* semaphore does not suspend the caller) and __aexit__ gives it back as soon
\* as the task is created
SemaphoreAfterLaunch(permits) == (permits - 1) + 1

\* self.loop is set by start() and never unset
LoopSet == scheduler_task # None

\* line 184 on an engine that was never started:
\* AttributeError: 'NoneType' object has no attribute 'create_task'
NoLoopError == [error |-> "AttributeError", cause |-> "create_task", names |-> {}]

\* lines 183-185 as a bug would have them: the run is awaited in the call
LaunchedMut(c) ==
    IF LoopSet THEN [c EXCEPT !.task = "suspended", !.status = "running",
                              !.status_log = Append(@, "running")]
    ELSE c

\* lines 183-185: context.task = self.loop.create_task(...), which raises
\* before the task exists when the loop is not set
Launched(c) == IF LoopSet THEN [c EXCEPT !.task = "pending"] ELSE c

\* WorkflowEngine.execute_workflow(workflow_def): it never suspends, so the
\* whole call is one step; at most `limit` contexts are created
ExecuteWithin(d, limit) ==
    LET def == Definition(d)
        known == def.id \in DOMAIN workflows
        v == _validate_workflow_def(def)
        execution_id == Len(contexts) + 1
    IN  IF ~known /\ ~v.ok
        THEN \* register_workflow raises: nothing is created
             /\ raised' = RegisterError(v)
             /\ UNCHANGED <<workflows, workflow_status, active_executions,
                            execution_semaphore, contexts, pure_vars, log_vars, lifecycle_vars, schedule_vars>>
        ELSE /\ execution_id <= limit
             /\ execution_semaphore > 0
             /\ workflows' = IF known THEN workflows ELSE Put(workflows, def.id, d)
             /\ last_execution_time' = IF known THEN last_execution_time
                                       ELSE Put(last_execution_time, def.id, None)
             /\ contexts' = Append(contexts, Launched(NewContext(def.id, d, TriggerPayload)))
             /\ active_executions' = active_executions \cup {execution_id}
             /\ workflow_status' = Put(workflow_status, def.id, "RUNNING")
             /\ execution_semaphore' = SemaphoreAfterLaunch(execution_semaphore)
             /\ raised' = IF LoopSet THEN NoException ELSE NoLoopError
             /\ UNCHANGED <<pure_vars, log_vars, lifecycle_vars>>

Execute(d) == ExecuteWithin(d, MaxExecutions)

\* lines 203-204: if context.task and not context.task.done(): task.cancel()
CancelRequested(c) ==
    [c EXCEPT !.must_cancel =
        c.must_cancel \/ (c.task # None /\ c.task \notin {"finished", "raised", "cancelled"})]

\* context.active_nodes.values(), in the order the nodes were stored
ActiveNodes(c) ==
    SelectSeq(Definition(c.def).nodes, LAMBDA n : n \in c.active_nodes)

\* what reaches the caller of stop_workflow_execution when a node's stop()
\* raises a CancelledError: line 214 catches Exception only
StopPropagated == [error |-> "CancelledError", cause |-> "stop", names |-> {}]

\* lines 211-215: the positions in context.active_nodes of the nodes whose
\* stop() can raise past the handler and end the loop (0: the loop runs to
\* its end)
StopCuts(c) ==
    {0} \cup {k \in 1..Len(ActiveNodes(c)) :
                "CancelledError" \in StopBehaviour(c.def, ActiveNodes(c)[k])}

\* lines 211-215: the nodes whose stop() the loop calls when it ends at
\* position k
StopInvoked(c, k) ==
    IF k = 0 THEN Range(ActiveNodes(c)) ELSE Range(SubSeq(ActiveNodes(c), 1, k))

\* lines 210-215: node.stop() for each active node up to position k; an
\* Exception is logged, and the coroutine an async stop() returns is dropped
NodesStopped(c, k) ==
    LET last == IF k = 0 THEN None ELSE ActiveNodes(c)[k]
    IN  [c EXCEPT !.stopped_nodes = @ \cup StopInvoked(c, k),
                  !.stop_ran = @ \cup {n \in StopInvoked(c, k) :
                                          StopBehaviour(c.def, n) = {"returns"}},
                  !.stop_errors = @ \cup {n \in StopInvoked(c, k) \ {last} :
                                             "Exception" \in StopBehaviour(c.def, n)}]

\* lines 196-215 for each execution of S, the loop over the nodes of
\* execution f ending at position k: the contexts and the status map
StoppedContexts(S, f, k) ==
    [e \in DOMAIN contexts |->
        IF e \notin S THEN contexts[e]
        ELSE NodesStopped(CancelRequested(contexts[e]), IF e = f THEN k ELSE 0)]

StoppedStatus(S) ==
    [w \in DOMAIN workflow_status |->
        IF \E e \in S : contexts[e].workflow_id = w THEN "STOPPED" ELSE workflow_status[w]]

\* lines 196-198 as a bug would have them: the execution is looked up among
\* all the contexts created, the terminated ones included
StopTargetsMut(e) == {e} \cap DOMAIN contexts

\* lines 196-198: nothing is done for an id that is not in active_executions
StopTargets(e) == {e} \cap active_executions

\* WorkflowEngine.stop_workflow_execution(execution_id)
Stop(e) ==
    /\ \E k \in (IF StopTargets(e) = {} THEN {0} ELSE StopCuts(contexts[e])) :
          /\ contexts' = StoppedContexts(StopTargets(e), e, k)
          /\ raised' = IF k = 0 THEN NoException ELSE StopPropagated
    /\ workflow_status' = StoppedStatus(StopTargets(e))
    /\ unknown_stops' = IF StopTargets(e) = {} THEN unknown_stops \cup {e} ELSE unknown_stops
    /\ UNCHANGED <<workflows, active_executions, execution_semaphore, pure_vars, lifecycle_vars, schedule_vars>>

\* WorkflowEngine.start(): the loop is taken and the scheduler task created
start ==
    /\ raised' = NoException
    /\ IF running THEN UNCHANGED lifecycle_vars
       ELSE /\ running' = TRUE
            /\ scheduler_task' = "pending"
    /\ UNCHANGED <<workflows, workflow_status, active_executions,
                   execution_semaphore, contexts, pure_vars, log_vars, schedule_vars>>

\* line 141: self.scheduler_task.cancel(); no effect on a task that is done
SchedulerCancelRequested(t) ==
    IF t = "pending" THEN "pending_cancel"
    ELSE IF t = "sleeping" THEN "sleeping_cancel"
    ELSE IF t = "backoff" THEN "backoff_cancel"
    ELSE t

\* WorkflowEngine.stop(): it is not a coroutine, so it returns without any
\* task having run.  The executions are stopped in the order of the dict
\* (lines 137-139); a stop() that raises past stop_workflow_execution, in
\* execution f at position k, ends the call there, before line 141.
stop ==
    /\ IF ~running
       THEN /\ raised' = NoException
            /\ UNCHANGED <<lifecycle_vars, contexts, workflow_status>>
       ELSE /\ running' = FALSE
            /\ \E f \in {0} \cup active_executions :
                 \E k \in (IF f = 0 THEN {0} ELSE StopCuts(contexts[f]) \ {0}) :
                    LET S == {e \in active_executions : f = 0 \/ e <= f}
                    IN  /\ contexts' = StoppedContexts(S, f, k)
                        /\ workflow_status' = StoppedStatus(S)
                        /\ scheduler_task' = IF f = 0
                                             THEN SchedulerCancelRequested(scheduler_task)
                                             ELSE scheduler_task
                        /\ raised' = IF f = 0 THEN NoException ELSE StopPropagated
    /\ UNCHANGED <<workflows, active_executions, execution_semaphore, pure_vars, log_vars,
                   schedule_vars>>

\* lines 281-293: the registered workflows the tick does not skip: not
\* RUNNING, with an interval schedule whose interval_seconds is positive
Scheduled ==
    {w \in DOMAIN workflows :
        /\ workflow_status[w] # "RUNNING"
        /\ Schedule(workflows[w]).type = "interval"
        /\ Schedule(workflows[w]).interval_seconds > 0}

\* lines 296-299: a definition that has a last_execution_time reaches
\* timedelta(seconds=interval_seconds); the module imports datetime alone
\* from datetime (lines 8-21), so the name is undefined and NameError is raised
TickFailures == {w \in Scheduled : last_execution_time[w] # None}

\* lines 305-308: first execution
FirstExecutions == {w \in Scheduled : last_execution_time[w] = None}

\* lines 317-319 as a bug would have them: the error ends the loop
SchedulerAfterMut(failed) == IF failed THEN "finished" ELSE "sleeping"

\* lines 310-311 and 317-319: asyncio.sleep(1) after a tick, asyncio.sleep(5)
\* in the handler of an error
SchedulerAfter(failed) == IF failed THEN "backoff" ELSE "sleeping"

\* the contexts after execute_workflow(workflow_def), which passes no trigger
\* data (lines 303 and 308), for each workflow of the sequence
RECURSIVE LaunchedContexts(_, _)
LaunchedContexts(cs, ws) ==
    IF ws = <<>> THEN cs
    ELSE LaunchedContexts(
             Append(cs, Launched(NewContext(Head(ws), workflows[Head(ws)], NoTrigger))),
             Tail(ws))

\* WorkflowEngine._scheduler from its start, or from a sleep, to the next
\* sleep: one pass of the loop body.  execute_workflow does not suspend, so
\* the pass is one step.  When a workflow of the pass raises, the ones
\* launched are those that come before it in the dict's order: any subset of
\* the first executions.  At most MaxExecutions contexts are created.
SchedulerStep ==
    /\ scheduler_task \in {"pending", "sleeping", "backoff"}
    /\ raised' = NoException
    /\ IF ~running
       THEN /\ scheduler_task' = "finished"
            /\ UNCHANGED <<workflow_status, active_executions, contexts, schedule_vars>>
       ELSE \E launched \in (IF TickFailures = {} THEN {FirstExecutions}
                             ELSE SUBSET FirstExecutions) :
               /\ Len(contexts) + Cardinality(launched) <= MaxExecutions
               /\ contexts' = LaunchedContexts(contexts, SetToSeq(launched))
               /\ active_executions' =
                     active_executions \cup (Len(contexts) + 1 .. Len(contexts'))
               /\ workflow_status' = [w \in DOMAIN workflow_status |->
                     IF w \in launched THEN "RUNNING" ELSE workflow_status[w]]
               /\ last_execution_time' = [w \in DOMAIN last_execution_time |->
                     IF w \in launched THEN "set" ELSE last_execution_time[w]]
               /\ scheduler_task' = SchedulerAfter(TickFailures # {})
    /\ UNCHANGED <<workflows, execution_semaphore, running, pure_vars, log_vars>>

\* the cancellation reaches the scheduler: a task that has not run is
\* cancelled; lines 314-316 catch it in asyncio.sleep(1) and break out of the
\* loop; in the handler's asyncio.sleep(5) nothing catches it
SchedulerCancelled ==
    /\ scheduler_task \in {"pending_cancel", "sleeping_cancel", "backoff_cancel"}
    /\ scheduler_task' = IF scheduler_task = "sleeping_cancel" THEN "finished"
                         ELSE "cancelled"
    /\ raised' = NoException
    /\ UNCHANGED <<workflows, workflow_status, active_executions,
                   execution_semaphore, contexts, running, pure_vars, log_vars, schedule_vars>>

\* WorkflowEngine.get_execution_status(execution_id); found = FALSE stands
\* for the returned None
get_execution_status(e) ==
    IF e \notin active_executions THEN [found |-> FALSE]
    ELSE [found |-> TRUE, execution_id |-> e, workflow_id |-> contexts[e].workflow_id,
          status |-> contexts[e].status, end_time |-> contexts[e].end_time,
          error |-> contexts[e].error]


(***************************************************************************)
(* The run task: WorkflowEngine._execute_workflow_internal.                *)
(***************************************************************************)
PlanOf(c) == _build_execution_plan(Definition(c.def)).plan

\* lines 397-424 and 426-430: except Exception, then finally
RunFails(e, c) ==
    /\ contexts' = [contexts EXCEPT ![e] = c]
    /\ workflow_status' = [workflow_status EXCEPT ![c.workflow_id] = "FAILED"]
    /\ active_executions' = active_executions \ {e}

\* handle_workflow_error as a bug would have it: the retry it announces is
\* carried out, the nodes of the run are executed again
handle_workflow_errorMut(c) ==
    IF c.retry_count < ErrorHandling(c.def).max_retries
    THEN [c EXCEPT !.retry_count = @ + 1,
                   !.node_calls = [n \in DOMAIN @ |->
                       IF n \in c.active_nodes THEN Append(@[n], "execute") ELSE @[n]]]
    ELSE c

\* utils/error_handler.py, lines 106-161: the retry is logged and counted in
\* context.retry_count, nothing is re-scheduled, and the error is raised
handle_workflow_error(c) ==
    IF c.retry_count < ErrorHandling(c.def).max_retries
    THEN [c EXCEPT !.retry_count = @ + 1]
    ELSE c

\* lines 397-424 as a bug would have them: the end time is not recorded
FailedContextMut(c, err) ==
    handle_workflow_error([c EXCEPT !.status = "failed", !.error = err, !.task = "raised",
                                    !.status_log = Append(@, "failed")])

\* lines 397-424: the handler of except Exception
FailedContext(c, err) ==
    handle_workflow_error(
        [c EXCEPT !.status = "failed", !.error = err, !.end_time = TRUE, !.task = "raised",
                  !.status_log = Append(@, "failed")])

\* lines 357-375, 540 and 426-430: the run returns the assembled output (the
\* status is still "running" when it is assembled), then finally
RunCompletes(e, c) ==
    /\ contexts' = [contexts EXCEPT ![e] =
          [c EXCEPT !.status = "completed", !.end_time = TRUE, !.task = "finished",
                    !.status_log = Append(@, "completed"),
                    !.result = _prepare_workflow_output(Definition(c.def),
                                                        StoredResults(c), c.status)]]
    /\ workflow_status' = [workflow_status EXCEPT ![c.workflow_id] = "COMPLETED"]
    /\ active_executions' = active_executions \ {e}

\* lines 377-395 and 426-430: the handler of except asyncio.CancelledError,
\* which re-raises, then finally; the workflow's status is not written
RunCancelled(e, c) ==
    /\ contexts' = [contexts EXCEPT ![e] =
          [c EXCEPT !.status = "cancelled", !.end_time = TRUE, !.task = "cancelled",
                    !.status_log = Append(@, "cancelled")]]
    /\ active_executions' = active_executions \ {e}
    /\ UNCHANGED workflow_status

\* lines 499-517: the input of each node of the level is prepared, the
\* coroutine of its _execute_node is created (none of it runs yet) and the
\* run awaits the gather
RunAwaitsLevel(e, c, lvl) ==
    /\ contexts' = [contexts EXCEPT ![e] =
          [c EXCEPT !.level = lvl, !.task = "suspended",
                    !.node_input = [n \in DOMAIN c.node_input |->
                        IF n \in PlanOf(c)[lvl] /\ n \in c.active_nodes
                        THEN _prepare_node_input(n, Definition(c.def),
                                                 StoredResults(c), c.trigger_data)
                        ELSE c.node_input[n]]]]
    /\ UNCHANGED <<workflow_status, active_executions>>

\* _initialize_workflow_nodes: the index of the first node whose creation or
\* configuration raises (0: none), when configure raises for the node at
\* index k (0: for none)
InitFailure(def, k) ==
    LET bad == BadTypeNodes(def)
    IN  IF bad # {} /\ (k = 0 \/ Min(bad) <= k) THEN Min(bad) ELSE k

\* what the step of the loop is that raises for a node whose type is
\* registered: the constructor, called through create_node at lines 452-457
\* outside the try of lines 466-474 (node_registry.py lines 75-80 re-raise
\* what it raises), or configure
InitSteps == {"__init__", "configure"}

\* str(e) of what a node's constructor raised: context.error is the
\* constructor's own message, no WorkflowError wraps it
ConstructorError == "constructor error"

InitError(def, i) ==
    IF def.type[def.nodes[i]] = None THEN "missing type definition"
    ELSE IF ~has_node_type(def.type[def.nodes[i]]) THEN "Failed to create node"
    ELSE "Failed to configure node"

\* lines 467-470: the nodes stored in context.active_nodes when the loop
\* stops at the node of index i (0: it runs to its end)
Initialized(def, i) ==
    IF i = 0 THEN NodeSet(def) ELSE Range(SubSeq(def.nodes, 1, i - 1))

\* lines 451-464: what the engine invokes on the instance it stores for a
\* node: the constructor, through create_node, and configure
InitCalls(def, i) ==
    [n \in NodeSet(def) |->
        IF n \in Initialized(def, i) THEN <<"__init__", "configure">> ELSE <<>>]

\* lines 448-474 as a bug would have them: the failure is swallowed
InitAbortsMut(i) == FALSE

\* lines 448-449, 459-460 and 472-474: the failure is raised out of
\* _initialize_workflow_nodes, past line 355
InitAborts(i) == i > 0

\* the first step of the task: lines 335-355 up to the first gather, which
\* is the first point the coroutine can suspend at, so that the assignment
\* of line 338 and what follows it are one callback of the event loop.  A
\* configure that raises an Exception is wrapped in a WorkflowError (lines
\* 472-474), a constructor that raises one is not; either that raises a
\* CancelledError, which is no Exception, lets it through to the handler of
\* lines 377-395.
StartRun(e) ==
    /\ e \in DOMAIN contexts
    /\ contexts[e].task = "pending"
    /\ ~contexts[e].must_cancel
    /\ raised' = NoException
    /\ UNCHANGED <<workflows, execution_semaphore, pure_vars, log_vars, lifecycle_vars, schedule_vars>>
    /\ LET def == Definition(contexts[e].def)
           c == [contexts[e] EXCEPT !.status = "running",
                                    !.status_log = Append(@, "running")]
       IN  \E k \in 0..Len(def.nodes), how \in InitSteps, err \in NodeErrors :
              LET i == InitFailure(def, k)
                  p == _build_execution_plan(def)
                  ready == [c EXCEPT !.active_nodes = Initialized(def, i),
                                     !.node_calls = InitCalls(def, i)]
              IN  IF InitAborts(i)
                  THEN IF InitError(def, i) # "Failed to configure node"
                       THEN RunFails(e, FailedContext(ready, InitError(def, i)))
                       ELSE IF err = "CancelledError"
                       THEN RunCancelled(e, ready)
                       ELSE IF how = "__init__"
                       THEN RunFails(e, FailedContext(ready, ConstructorError))
                       ELSE RunFails(e, FailedContext(ready, InitError(def, i)))
                  ELSE IF ~p.ok THEN RunFails(e, FailedContext(ready, p.error))
                  ELSE IF p.plan = <<>> THEN RunCompletes(e, ready)
                  ELSE RunAwaitsLevel(e, ready, 1)

\* the first step of the task that the gather made of a node's coroutine:
\* lines 556-572, up to the invocation of node.execute
NodeStart(e, n) ==
    /\ e \in DOMAIN contexts
    /\ contexts[e].task = "suspended"
    /\ ~contexts[e].must_cancel
    /\ n \in PlanOf(contexts[e])[contexts[e].level]
    /\ n \in contexts[e].active_nodes
    /\ contexts[e].node_exec[n] = "pending"
    /\ contexts' = [contexts EXCEPT ![e].node_exec[n] = "running",
                                    ![e].node_calls[n] = Append(@, "execute")]
    /\ raised' = NoException
    /\ UNCHANGED <<workflows, workflow_status, active_executions,
                   execution_semaphore, pure_vars, log_vars, lifecycle_vars, schedule_vars>>

\* lines 542-602 as a bug would have them: a node that raises cancels the
\* other nodes of its level
NodeFinishMut(e, n, ok) ==
    /\ e \in DOMAIN contexts
    /\ contexts[e].task = "suspended"
    /\ ~contexts[e].must_cancel
    /\ n \in DOMAIN contexts[e].node_exec
    /\ contexts[e].node_exec[n] = "running"
    /\ contexts' = [contexts EXCEPT
          ![e].node_exec = [m \in DOMAIN @ |->
              IF m = n THEN (IF ok THEN "completed" ELSE "failed")
              ELSE IF ~ok /\ @[m] = "running" THEN "cancelled" ELSE @[m]],
          ![e].node_raised[n] = IF ok THEN None ELSE "Exception",
          ![e].finished = Append(@, n)]
    /\ raised' = NoException
    /\ UNCHANGED <<workflows, workflow_status, active_executions,
                   execution_semaphore, pure_vars, log_vars, lifecycle_vars, schedule_vars>>

\* a node's execute returns (ok) or raises (~ok) an Exception or a
\* CancelledError; lines 572-602
NodeFinish(e, n, ok) ==
    /\ e \in DOMAIN contexts
    /\ contexts[e].task = "suspended"
    /\ ~contexts[e].must_cancel
    /\ n \in DOMAIN contexts[e].node_exec
    /\ contexts[e].node_exec[n] = "running"
    /\ IF ok
       THEN contexts' = [contexts EXCEPT ![e].node_exec[n] = "completed",
                                         ![e].finished = Append(@, n)]
       ELSE \E err \in NodeErrors :
               contexts' = [contexts EXCEPT ![e].node_exec[n] = "failed",
                                            ![e].node_raised[n] = err,
                                            ![e].finished = Append(@, n)]
    /\ raised' = NoException
    /\ UNCHANGED <<workflows, workflow_status, active_executions,
                   execution_semaphore, pure_vars, log_vars, lifecycle_vars, schedule_vars>>

\* the gather as a bug would have it: it returns on the first node that ends
LevelSettledMut(c) ==
    \E n \in PlanOf(c)[c.level] : c.node_exec[n] \in {"completed", "failed"}

\* line 517: asyncio.gather(*tasks, return_exceptions=True) returns when
\* every node of the level has returned or raised
LevelSettled(c) ==
    \A n \in PlanOf(c)[c.level] : c.node_exec[n] \in {"completed", "failed"}

\* lines 523-528 as a bug would have them: no failure aborts the run
RequiredFailuresNone(c) == {}

\* lines 523-528 as a bug would have them: every failure aborts the run
RequiredFailuresAll(c) ==
    {n \in PlanOf(c)[c.level] : c.node_exec[n] = "failed"}

\* lines 523-528: the level's nodes whose result is an exception and that
\* _is_node_required holds of
RequiredFailures(c) ==
    {n \in PlanOf(c)[c.level] :
        /\ c.node_exec[n] = "failed"
        /\ c.node_raised[n] = "Exception"
        /\ _is_node_required(n, Definition(c.def))}

\* lines 523-537: the node_results entries of the nodes S of the level; a
\* result that is no Exception is stored as it is (line 537)
StoreResults(c, S) ==
    [c EXCEPT !.node_results = [n \in DOMAIN c.node_results |->
        IF n \notin S THEN c.node_results[n]
        ELSE IF c.node_exec[n] = "failed" /\ c.node_raised[n] = "Exception" THEN "failed"
        ELSE IF c.node_exec[n] = "failed" THEN "CancelledError"
        ELSE IF c.node_exec[n] = "completed" THEN "result"
        ELSE c.node_results[n]]]

\* the task resumes from the gather: lines 519-540.  The level's list is in
\* the iteration order of a set, so the results stored before a required
\* node's failure raises are those of any set of the other nodes.
LevelDone(e) ==
    /\ e \in DOMAIN contexts
    /\ contexts[e].task = "suspended"
    /\ ~contexts[e].must_cancel
    /\ LevelSettled(contexts[e])
    /\ raised' = NoException
    /\ UNCHANGED <<workflows, execution_semaphore, pure_vars, log_vars, lifecycle_vars, schedule_vars>>
    /\ LET c == contexts[e]
           level == PlanOf(c)[c.level]
       IN  IF RequiredFailures(c) # {}
           THEN \E stored \in SUBSET (level \ RequiredFailures(c)) :
                   RunFails(e, FailedContext(StoreResults(c, stored), "Required node failed"))
           ELSE IF c.level = Len(PlanOf(c))
           THEN RunCompletes(e, StoreResults(c, level))
           ELSE RunAwaitsLevel(e, StoreResults(c, level), c.level + 1)

\* the cancellation reaches the task of a node that is in execute: the
\* gather the run awaits has passed the request on to each task of the level,
\* and the CancelledError is raised in the node's own callback, out of
\* line 572 and past the except Exception of _execute_node.  The task of a
\* node that has not started ends without entering _execute_node.
NodeCancelled(e, n) ==
    /\ e \in DOMAIN contexts
    /\ contexts[e].task = "suspended"
    /\ contexts[e].must_cancel
    /\ n \in DOMAIN contexts[e].node_exec
    /\ contexts[e].node_exec[n] = "running"
    /\ contexts' = [contexts EXCEPT ![e].node_exec[n] = "cancelled"]
    /\ raised' = NoException
    /\ UNCHANGED <<workflows, workflow_status, active_executions,
                   execution_semaphore, pure_vars, log_vars, lifecycle_vars, schedule_vars>>

\* the cancellation reaches the suspended run task, in a callback that
\* follows those of the level's node tasks (the gather ends when its last
\* task has ended): lines 377-395, then finally
DeliverCancel(e) ==
    /\ e \in DOMAIN contexts
    /\ contexts[e].task = "suspended"
    /\ contexts[e].must_cancel
    /\ \A n \in DOMAIN contexts[e].node_exec : contexts[e].node_exec[n] # "running"
    /\ RunCancelled(e, [contexts[e] EXCEPT !.must_cancel = FALSE])
    /\ raised' = NoException
    /\ UNCHANGED <<workflows, execution_semaphore, pure_vars, log_vars, lifecycle_vars, schedule_vars>>

\* the cancellation reaches a task that has not run yet: asyncio throws
\* CancelledError into the coroutine before its first statement, so neither
\* the try block nor its handlers nor finally run
CancelUnstarted(e) ==
    /\ e \in DOMAIN contexts
    /\ contexts[e].task = "pending"
    /\ contexts[e].must_cancel
    /\ contexts' = [contexts EXCEPT ![e].task = "cancelled", ![e].must_cancel = FALSE]
    /\ raised' = NoException
    /\ UNCHANGED <<workflows, workflow_status, active_executions,
                   execution_semaphore, pure_vars, log_vars, lifecycle_vars, schedule_vars>>

Init ==
    /\ EngineInit
    /\ PlanIdle(Definition("pipeline"))
    /\ RetryIdle
    /\ FlowIdle
    /\ ComponentIdle

Next ==
    \/ \E d \in DefNames : Register(d)
    \/ \E d \in DefNames : Execute(d)
    \/ \E e \in ExecutionIds : Stop(e)
    \/ \E e \in ExecutionIds : StartRun(e)
    \/ \E e \in ExecutionIds, n \in CatalogueNodes : NodeStart(e, n)
    \/ \E e \in ExecutionIds, n \in CatalogueNodes, ok \in BOOLEAN : NodeFinish(e, n, ok)
    \/ \E e \in ExecutionIds : LevelDone(e)
    \/ \E e \in ExecutionIds, n \in CatalogueNodes : NodeCancelled(e, n)
    \/ \E e \in ExecutionIds : DeliverCancel(e)
    \/ \E e \in ExecutionIds : CancelUnstarted(e)
    \/ start
    \/ stop
    \/ SchedulerStep
    \/ SchedulerCancelled

Spec == Init /\ [][Next]_vars

\* the engine driven through at most MaxRuns executions
NextRun ==
    \/ \E d \in DefNames : Register(d)
    \/ \E d \in DefNames : ExecuteWithin(d, MaxRuns)
    \/ \E e \in ExecutionIds : Stop(e)
    \/ \E e \in ExecutionIds : StartRun(e)
    \/ \E e \in ExecutionIds, n \in CatalogueNodes : NodeStart(e, n)
    \/ \E e \in ExecutionIds, n \in CatalogueNodes, ok \in BOOLEAN : NodeFinish(e, n, ok)
    \/ \E e \in ExecutionIds : LevelDone(e)
    \/ \E e \in ExecutionIds, n \in CatalogueNodes : NodeCancelled(e, n)
    \/ \E e \in ExecutionIds : DeliverCancel(e)
    \/ \E e \in ExecutionIds : CancelUnstarted(e)
    \/ start
    \/ stop
    \/ SchedulerStep
    \/ SchedulerCancelled

SpecRun == Init /\ [][NextRun]_vars

\* the engine driven with the scheduled workflow: register() and execute()
\* calls for it, stop(execution_id), start(), stop(), the scheduler and the
\* runs
NextScheduled ==
    \/ Register("ticker")
    \/ Execute("ticker")
    \/ \E e \in ExecutionIds : Stop(e)
    \/ \E e \in ExecutionIds : StartRun(e)
    \/ \E e \in ExecutionIds : NodeStart(e, "a")
    \/ \E e \in ExecutionIds, ok \in BOOLEAN : NodeFinish(e, "a", ok)
    \/ \E e \in ExecutionIds : LevelDone(e)
    \/ \E e \in ExecutionIds : NodeCancelled(e, "a")
    \/ \E e \in ExecutionIds : DeliverCancel(e)
    \/ \E e \in ExecutionIds : CancelUnstarted(e)
    \/ start
    \/ stop
    \/ SchedulerStep
    \/ SchedulerCancelled

SpecScheduled == Init /\ [][NextScheduled]_vars

TypeOK ==
    /\ DOMAIN workflows = DOMAIN workflow_status
    /\ active_executions \subseteq DOMAIN contexts
    /\ execution_semaphore = max_concurrent_workflows


(***************************************************************************)
(* Notions the engine's properties are stated with.                        *)
(***************************************************************************)
Done == {"finished", "raised", "cancelled"}

\* the node's execute has been invoked in the run
Executed(c, n) == c.node_exec[n] # "pending"

RequiredNode(c, n) == _is_node_required(n, Definition(c.def))

\* the nodes of the levels after (before) the level of n
LaterNodes(c, n) ==
    {m \in DOMAIN c.node_exec : LevelOf(PlanOf(c), m) > LevelOf(PlanOf(c), n)}

EarlierNodes(c, n) ==
    {m \in DOMAIN c.node_exec : LevelOf(PlanOf(c), m) < LevelOf(PlanOf(c), n)}

FailedRequired(c) ==
    {n \in DOMAIN c.node_exec : c.node_exec[n] = "failed" /\ RequiredNode(c, n)}

FailedOptional(c) ==
    {n \in DOMAIN c.node_exec : c.node_exec[n] = "failed" /\ ~RequiredNode(c, n)}

(***************************************************************************)
(* C1.  In every reachable state the number of executions that have        *)
(* started running and have not terminated is at most                      *)
(* max_concurrent_workflows.                                               *)
(***************************************************************************)
C1_ConcurrencyBound ==
    Cardinality({e \in DOMAIN contexts : contexts[e].status = "running"})
        <= max_concurrent_workflows

(***************************************************************************)
(* C2, as claimed.  In any run, once the execute of a required node has    *)
(* failed, no node of a later level is ever executed and the run's context *)
(* ends with status failed.                                                *)
(***************************************************************************)
C2_RequiredFailureEndsFailed ==
    \A e \in DOMAIN contexts :
        FailedRequired(contexts[e]) # {} =>
            /\ \A n \in FailedRequired(contexts[e]) :
                  \A m \in LaterNodes(contexts[e], n) : ~Executed(contexts[e], m)
            /\ contexts[e].task \in Done => contexts[e].status = "failed"

(***************************************************************************)
(* C2, the stop case set aside.  In any run, once the execute of a         *)
(* required node has failed (raised), no node of a later level is ever     *)
(* executed and the run never completes: its context ends with status      *)
(* failed, or with status cancelled when stop(execution_id) reaches the    *)
(* run before it has processed the level; and in the step in which the     *)
(* context becomes failed the workflow's status is set to FAILED.          *)
(***************************************************************************)
C2_RequiredFailureStopsRun ==
    /\ [](\A e \in DOMAIN contexts :
            FailedRequired(contexts[e]) # {} =>
                /\ \A n \in FailedRequired(contexts[e]) :
                      \A m \in LaterNodes(contexts[e], n) : ~Executed(contexts[e], m)
                /\ contexts[e].task \in Done =>
                      contexts[e].status \in {"failed", "cancelled"}
                /\ contexts[e].status # "completed")
    /\ [][\A e \in DOMAIN contexts :
            (contexts[e].status # "failed" /\ contexts'[e].status = "failed") =>
                workflow_status'[contexts[e].workflow_id] = "FAILED"]_vars

\* the required node a has failed beside a completed sibling, the run has
\* ended failed with the workflow FAILED, and y has never been executed
C2_Witness ==
    \E e \in DOMAIN contexts :
        /\ contexts[e].def = "pipeline"
        /\ contexts[e].node_exec["a"] = "failed"
        /\ contexts[e].node_exec["x"] = "completed"
        /\ contexts[e].node_exec["y"] = "pending"
        /\ contexts[e].status = "failed"
        /\ workflow_status[contexts[e].workflow_id] = "FAILED"

(***************************************************************************)
(* C3.  The failure of a non-required node does not abort the run.  A run  *)
(* ends failed only when node initialization or planning failed or a       *)
(* required node failed.  When the run resumes from a level in which only  *)
(* non-required nodes failed, it stores for each of them the failure       *)
(* record in node_results and goes on: it prepares the input of every     *)
(* node of the next level and awaits them, or completes when the level was *)
(* the last.  A run that has completed has executed every node of every    *)
(* level.                                                                  *)
(***************************************************************************)
C3_OptionalFailureContinues ==
    /\ [](\A e \in DOMAIN contexts :
            LET c == contexts[e] IN
            /\ c.status = "failed" => (c.level = 0 \/ FailedRequired(c) # {})
            /\ \A n \in FailedOptional(c) :
                  (c.level > LevelOf(PlanOf(c), n) \/ c.status = "completed") =>
                      /\ c.node_results[n] = "failed"
                      /\ \A m \in DOMAIN c.node_exec :
                            /\ LevelOf(PlanOf(c), m) < c.level => Executed(c, m)
                            /\ LevelOf(PlanOf(c), m) = c.level =>
                                  c.node_input[m] # NotPrepared
            /\ c.status = "completed" =>
                  \A n \in DOMAIN c.node_exec :
                      /\ c.node_exec[n] \in {"completed", "failed"}
                      /\ c.node_exec[n] = "failed" => c.node_results[n] = "failed"
                      /\ c.node_exec[n] = "completed" => c.node_results[n] = "result")
    /\ [][\A e \in DOMAIN contexts :
            LET c == contexts[e]
                after == contexts'[e]
            IN  (/\ c.task = "suspended"
                 /\ after.task # "cancelled"
                 /\ FailedRequired(c) = {}
                 /\ FailedOptional(c) \cap PlanOf(c)[c.level] # {}
                 /\ <<after.level, after.status>> # <<c.level, c.status>>) =>
                    /\ \A n \in FailedOptional(c) : after.node_results[n] = "failed"
                    /\ IF c.level = Len(PlanOf(c))
                       THEN after.status = "completed"
                       ELSE /\ after.status = "running"
                            /\ after.level = c.level + 1
                            /\ \A m \in PlanOf(c)[after.level] :
                                  after.node_input[m] # NotPrepared]_vars

\* the optional node x has failed in the first level, and y, of the second
\* level, has been executed to its end in a run that completed
C3_Witness ==
    \E e \in DOMAIN contexts :
        /\ contexts[e].def = "pipeline"
        /\ contexts[e].node_exec["x"] = "failed"
        /\ contexts[e].node_results["x"] = "failed"
        /\ contexts[e].node_exec["y"] = "completed"
        /\ contexts[e].status = "completed"

(***************************************************************************)
(* C6.  Within one run, a node of a level starts executing only when every *)
(* node of every earlier level has finished, having succeeded or having    *)
(* failed as a non-required node; so a run aborted by a required node's    *)
(* failure or by cancellation starts no further level.                     *)
(***************************************************************************)
C6_LevelBarrier ==
    \A e \in DOMAIN contexts :
        \A n \in DOMAIN contexts[e].node_exec :
            Executed(contexts[e], n) =>
                \A m \in EarlierNodes(contexts[e], n) :
                    \/ contexts[e].node_exec[m] = "completed"
                    \/ /\ contexts[e].node_exec[m] = "failed"
                       /\ ~RequiredNode(contexts[e], m)

\* y, of the second level, is running after a and x have finished
C6_Witness ==
    \E e \in DOMAIN contexts :
        /\ contexts[e].def = "pipeline"
        /\ contexts[e].node_exec["y"] = "running"
        /\ contexts[e].node_exec["a"] = "completed"
        /\ contexts[e].node_exec["x"] \in {"completed", "failed"}

(***************************************************************************)
(* C7.  A definition that fails validation is never registered: every      *)
(* registered definition passes validation, a register() or execute() call *)
(* that raises the registration error leaves the workflow table, the       *)
(* status map, the active executions and the contexts as they were, and    *)
(* no execution context is created for a definition that fails validation. *)
(***************************************************************************)
C7_RejectedNeverRegistered ==
    /\ [](\A w \in DOMAIN workflows :
            /\ _validate_workflow_def(Definition(workflows[w])).ok
            /\ Definition(workflows[w]).id = w)
    /\ [][/\ raised'.error = "Failed to register workflow" =>
               /\ workflows' = workflows
               /\ workflow_status' = workflow_status
               /\ active_executions' = active_executions
               /\ contexts' = contexts
          /\ \A e \in DOMAIN contexts' \ DOMAIN contexts :
               _validate_workflow_def(Definition(contexts'[e].def)).ok]_vars

\* a definition with a node of type "Bogus" has just been rejected, naming
\* the type, by an engine that holds a registered workflow
C7_Witness ==
    /\ raised.error = "Failed to register workflow"
    /\ raised.cause = "Node type is not registered"
    /\ "Bogus" \in raised.names
    /\ DOMAIN workflows = {"w1"}
    /\ "w3" \notin DOMAIN workflow_status

(***************************************************************************)
(* C8.  Every execution context that execute() put into the table of       *)
(* active executions is out of it once its run's task has terminated,      *)
(* whenever the cancellation was requested.                                *)
(***************************************************************************)
C8_TerminatedRunRemoved ==
    \A e \in DOMAIN contexts :
        contexts[e].task \in Done => e \notin active_executions

(***************************************************************************)
(* C9.  For every run that ended in failure, get_execution_status gives a  *)
(* status record whose status is failed and whose error is set, not None.  *)
(***************************************************************************)
C9_FailureObservable ==
    \A e \in DOMAIN contexts :
        contexts[e].status = "failed" =>
            /\ get_execution_status(e).found
            /\ get_execution_status(e).status = "failed"
            /\ get_execution_status(e).error # None

(***************************************************************************)
(* C10.  A workflow's status changes only along REGISTERED -> RUNNING,     *)
(* RUNNING -> COMPLETED, RUNNING -> FAILED, RUNNING -> STOPPED and from a  *)
(* terminal status back to RUNNING.                                        *)
(***************************************************************************)
StatusTransitions ==
    {<<"REGISTERED", "RUNNING">>, <<"RUNNING", "COMPLETED">>, <<"RUNNING", "FAILED">>,
     <<"RUNNING", "STOPPED">>, <<"COMPLETED", "RUNNING">>, <<"FAILED", "RUNNING">>,
     <<"STOPPED", "RUNNING">>}

C10_StatusTransitions ==
    [][\A w \in DOMAIN workflow_status :
          /\ w \in DOMAIN workflow_status'
          /\ workflow_status'[w] # workflow_status[w] =>
                <<workflow_status[w], workflow_status'[w]>> \in StatusTransitions]_vars

(***************************************************************************)
(* C11.  A run whose task was cancelled by stop(execution_id) has a        *)
(* context that ended with status cancelled, with its end time recorded    *)
(* and no error; the cancellation is never turned into a failure.          *)
(***************************************************************************)
C11_StopEndsCancelled ==
    \A e \in DOMAIN contexts :
        contexts[e].task = "cancelled" =>
            /\ contexts[e].status = "cancelled"
            /\ contexts[e].end_time
            /\ contexts[e].error = None

(***************************************************************************)
(* C12.  When the engine's stop() returns, nothing is left unsettled: the  *)
(* table of active executions is empty, every run has a terminal status    *)
(* and the scheduler task has ended.                                       *)
(***************************************************************************)
Terminal == {"completed", "failed", "cancelled"}

C12_StopSettles ==
    [][(running /\ ~running') =>
          /\ active_executions' = {}
          /\ \A e \in DOMAIN contexts' : contexts'[e].status \in Terminal
          /\ scheduler_task' \in {"finished", "cancelled"}]_vars

(***************************************************************************)
(* One call of a function decorated with retry_with_backoff:               *)
(* async_wrapper (sync_wrapper is the same loop with time.sleep).          *)
(***************************************************************************)
\* the invocations whose outcome is drawn: one more than any call can make
MaxCalls == MaxRetries + 1

RetryInit ==
    /\ EngineInit
    /\ ComponentIdle
    /\ FlowIdle
    /\ PlanIdle(Definition("pipeline"))
    /\ \E retries \in 0..MaxRetries, exceptions \in RetryOnChoices,
          predicate \in RetryIfChoices, outcomes \in [1..MaxCalls -> Outcomes] :
          wrapped = [max_retries |-> retries, retry_on |-> exceptions,
                     retry_if |-> predicate, outcomes |-> outcomes]
    /\ wrapper = WrapperEntered

\* line 61: the wrapper, entered or woken from the sleep of line 85, calls
\* the function and is suspended in it
Invoke ==
    /\ wrapper.state \in {"running", "sleeping"}
    /\ wrapper.invocations < Len(wrapped.outcomes)
    /\ wrapper' = [wrapper EXCEPT !.state = "calling", !.invocations = @ + 1]
    /\ UNCHANGED <<wrapped, engine_vars, plan_vars, flow_vars, component_vars>>

\* lines 61-85: the function returns or raises, and the wrapper runs to its
\* return, to its raise or to the sleep of line 85, where it is suspended
Attempt ==
    /\ wrapper.state = "calling"
    /\ LET i == wrapper.invocations
           e == ExceptionOf(wrapped.outcomes[i], i)
           called == [wrapper EXCEPT !.calls = Append(@, wrapped.outcomes[i])]
           attempt == wrapper.attempt + 1
       IN  IF wrapped.outcomes[i] = "ok"
           THEN wrapper' = [called EXCEPT !.state = "returned", !.result = i]
           ELSE IF ~Catches(wrapped.retry_on, e)
           THEN wrapper' = [called EXCEPT !.state = "raised", !.error = e]
           ELSE IF ~should_retry(attempt, wrapped.max_retries, wrapped.retry_if, e)
           THEN wrapper' = [called EXCEPT !.state = "raised", !.attempt = attempt,
                                          !.error = Propagated(e)]
           ELSE \E jitter \in Jitter :
                   wrapper' = [called EXCEPT !.state = "sleeping",
                                             !.attempt = attempt,
                                             !.sleeps = @ + 1,
                                             !.wait = Backoff(attempt, jitter)]
    /\ UNCHANGED <<wrapped, engine_vars, plan_vars, flow_vars, component_vars>>

\* the task of the call is cancelled while the wrapper is suspended: the
\* CancelledError is thrown in at line 61, through the function, or at line
\* 85, and leaves the wrapper (neither line 63 nor any handler catches it)
WrapperCancelled ==
    /\ wrapper.state \in {"calling", "sleeping"}
    /\ wrapper' = [wrapper EXCEPT
          !.state = "cancelled",
          !.error = CancelledError,
          !.calls = IF wrapper.state = "calling" THEN Append(@, "cancelled") ELSE @]
    /\ UNCHANGED <<wrapped, engine_vars, plan_vars, flow_vars, component_vars>>

RetryNext == Invoke \/ Attempt \/ WrapperCancelled

SpecRetry == RetryInit /\ [][RetryNext]_vars

\* the exception that outcome o gives the i-th invocation is one the wrapper
\* retries on
RetryableOutcome(o, i) ==
    LET e == ExceptionOf(o, i)
    IN  /\ o \notin {"ok", "cancelled"}
        /\ e.type \in wrapped.retry_on \/ "Exception" \in wrapped.retry_on
        /\ wrapped.retry_if = "transient" => e.transient

\* the exception the i-th invocation of the wrapped function raises is one
\* the wrapper retries on
Retryable(i) == RetryableOutcome(wrapped.outcomes[i], i)

\* the number of retryable failures the wrapped function starts with
LeadingFailures ==
    IF \A i \in DOMAIN wrapped.outcomes : Retryable(i) THEN Len(wrapped.outcomes)
    ELSE (CHOOSE i \in DOMAIN wrapped.outcomes :
             ~Retryable(i) /\ \A j \in 1..(i - 1) : Retryable(j)) - 1

WrapperDone == wrapper.state \in {"returned", "raised"}

\* the invocation failed: the function raised an exception of its own
Failure(o) == o \notin {"ok", "cancelled"}

\* the function has failed with a retryable exception k times and has then
\* succeeded
FailedThenSucceeded(k) ==
    /\ Len(wrapper.calls) = k + 1
    /\ wrapper.calls[k + 1] = "ok"
    /\ \A j \in 1..k : RetryableOutcome(wrapper.calls[j], j)

(***************************************************************************)
(* C13.  A wrapped function that fails with a retryable exception k times  *)
(* and then succeeds, with k < max_retries: the wrapper never raises one   *)
(* of its failures, it invokes it at most k+1 times and sleeps at most k   *)
(* times, and once the function has failed k times and succeeded the       *)
(* wrapper has returned the result of that invocation, number k+1, having  *)
(* invoked the function exactly k+1 times and slept k times.               *)
(***************************************************************************)
C13_RetryThenSuccess ==
    \A k \in 0..(Len(wrapped.outcomes) - 1) :
        (/\ k < wrapped.max_retries
         /\ k = LeadingFailures
         /\ wrapped.outcomes[k + 1] = "ok") =>
            /\ wrapper.state # "raised"
            /\ wrapper.invocations <= k + 1
            /\ wrapper.sleeps <= k
            /\ FailedThenSucceeded(k) =>
                  /\ wrapper.state = "returned"
                  /\ wrapper.result = k + 1
                  /\ wrapper.invocations = k + 1
                  /\ wrapper.sleeps = k

\* the function has failed twice and then succeeded under max_retries = 3:
\* the wrapper has returned after three invocations
C13_Witness ==
    /\ wrapped.max_retries = 3
    /\ FailedThenSucceeded(2)
    /\ wrapper.state = "returned"
    /\ wrapper.result = 3
    /\ wrapper.invocations = 3

\* the function has been invoked n times and has failed each time
FailedTimes(n) ==
    /\ Len(wrapper.calls) = n
    /\ \A j \in 1..n : Failure(wrapper.calls[j])

(***************************************************************************)
(* C14.  Once a wrapped function has failed max_retries + 1 consecutive    *)
(* times the wrapper has raised, and whenever the wrapper gives up what it *)
(* raises is the function's own exception of the last invocation, as it    *)
(* was raised (same class, same object), not a wrapping exception.         *)
(***************************************************************************)
C14_ExhaustedPropagatesOriginal ==
    /\ FailedTimes(wrapped.max_retries + 1) => wrapper.state = "raised"
    /\ wrapper.state = "raised" =>
          /\ wrapper.invocations >= 1
          /\ FailedTimes(wrapper.invocations)
          /\ wrapper.error = ExceptionOf(wrapper.calls[wrapper.invocations],
                                         wrapper.invocations)
          /\ wrapper.error.type \in {"TimeoutError", "ValueError"}

\* under max_retries = 0 the function has failed max_retries + 1 times, that
\* is once, with an exception the wrapper retries on, which has left the
\* wrapper as it was raised
C14_Witness ==
    /\ wrapped.max_retries = 0
    /\ FailedTimes(wrapped.max_retries + 1)
    /\ RetryableOutcome(wrapper.calls[1], 1)
    /\ wrapper.state = "raised"
    /\ wrapper.error = ExceptionOf(wrapper.calls[1], 1)
    /\ wrapper.error.type = "TimeoutError"

\* the invocation that has just ended, and what it did
Ended == Len(wrapper'.calls)

EndedWith == wrapper'.calls[Ended]

(***************************************************************************)
(* C15.  An exception that is not retryable (its class is not in retry_on, *)
(* or retry_if returns false for it) leaves the wrapper in the step in     *)
(* which the function raises it, as it is and with no sleep; when it is    *)
(* the function's first failure, the function was invoked once and no      *)
(* sleep was made.                                                         *)
(***************************************************************************)
C15_NonRetryablePropagates ==
    /\ [](( /\ wrapper.calls # <<>>
            /\ Failure(wrapper.calls[1])
            /\ ~RetryableOutcome(wrapper.calls[1], 1)) =>
               /\ wrapper.state = "raised"
               /\ wrapper.error = ExceptionOf(wrapper.calls[1], 1)
               /\ wrapper.invocations = 1
               /\ wrapper.sleeps = 0)
    /\ [][( /\ Ended = Len(wrapper.calls) + 1
            /\ Failure(EndedWith)
            /\ ~RetryableOutcome(EndedWith, Ended)) =>
               /\ wrapper'.state = "raised"
               /\ wrapper'.error = ExceptionOf(EndedWith, Ended)
               /\ wrapper'.invocations = Ended
               /\ wrapper'.sleeps = wrapper.sleeps]_vars

\* a ValueError under retry_on = (TimeoutError,) has propagated from the
\* first invocation, with retries left
C15_Witness ==
    /\ wrapped.retry_on = {"TimeoutError"}
    /\ wrapped.max_retries = 3
    /\ wrapper.calls = <<"value_error">>
    /\ wrapper.state = "raised"
    /\ wrapper.error.type = "ValueError"
    /\ wrapper.invocations = 1
    /\ wrapper.sleeps = 0

(***************************************************************************)
(* _prepare_node_input and _prepare_workflow_output applied to the         *)
(* contexts a run can have.  The definitions are ones the engine           *)
(* registers; node_results holds an entry for every node of the levels     *)
(* that have run (a failure record only for a node that is not required,   *)
(* since a required failure ends the run), and the input is prepared for   *)
(* the nodes of the next level, the output once every level has run.       *)
(***************************************************************************)
FlowNames == {"diamond", "fanin", "mapped", "renamed", "declared"}

FlowDefinition(d) ==
    CASE d = "diamond" ->
           [id |-> "f1", nodes |-> <<"A", "B", "C", "D">>,
            type |-> [n \in {"A", "B", "C", "D"} |-> "Worker"],
            required |-> [n \in {"A", "B", "C", "D"} |-> TRUE],
            edges |-> <<Edge("A", "B"), Edge("A", "C"), Edge("B", "D"), Edge("C", "D")>>,
            outputs |-> NoOutputs]
      [] d = "fanin" ->
           [id |-> "f2", nodes |-> <<"trigger", "b", "d">>,
            type |-> [n \in {"trigger", "b", "d"} |-> "Worker"],
            required |-> [n \in {"trigger", "b", "d"} |-> n = "trigger"],
            edges |-> <<Edge("trigger", "d"), Edge("b", "d")>>,
            outputs |-> NoOutputs]
      [] d = "mapped" ->
           [id |-> "f3", nodes |-> <<"a", "d">>,
            type |-> [n \in {"a", "d"} |-> "Worker"],
            required |-> [n \in {"a", "d"} |-> TRUE],
            edges |-> <<MappedEdge("a", "d", <<"a", "b">>, "v")>>,
            outputs |-> NoOutputs]
      [] d = "renamed" ->
           [id |-> "f5", nodes |-> <<"a", "d">>,
            type |-> [n \in {"a", "d"} |-> "Worker"],
            required |-> [n \in {"a", "d"} |-> TRUE],
            edges |-> <<MappedEdge("a", "d", WholeOutput, "v")>>,
            outputs |-> NoOutputs]
      [] OTHER ->
           [id |-> "f4", nodes |-> <<"a">>,
            type |-> [n \in {"a"} |-> "Worker"],
            required |-> [n \in {"a"} |-> TRUE],
            edges |-> <<>>,
            outputs |-> [found |-> [node |-> "a", path |-> <<"a", "b">>],
                         missing |-> [node |-> "a", path |-> <<"a", "x">>],
                         whole |-> [node |-> "a", path |-> WholeOutput],
                         ghost |-> [node |-> "ghost", path |-> <<"a", "b">>]]]

\* the ones register_workflow accepts
FlowDefinitions ==
    {def \in {FlowDefinition(d) : d \in FlowNames} : _validate_workflow_def(def).ok}

\* a result with nested fields: {"a": {"b": "5"}, "output": "7"}
Nested == Dict([a |-> Dict([b |-> Scalar("5")]), output |-> Scalar("7")])

\* what node_results can hold for node n
ResultValues(def, n) ==
    {NodeReturn(n), Nested} \cup
        (IF _is_node_required(n, def) THEN {} ELSE {FailureRecord})

\* the nodes of the levels that have run, for each number of them
LevelPrefixes(def) ==
    LET plan == _build_execution_plan(def).plan
    IN  {UNION {plan[i] : i \in 1..j} : j \in 0..Len(plan)}

DrawnResults(def) ==
    UNION {{r \in [S -> UNION {ResultValues(def, n) : n \in S}] :
               \A n \in S : r[n] \in ResultValues(def, n)} : S \in LevelPrefixes(def)}

\* line 170: trigger_data or {}
DrawnTriggers == {Dict(<<>>), TriggerPayload}

\* the nodes of the level that runs next
NextLevel(def, results) ==
    LET plan == _build_execution_plan(def).plan
        left == {i \in DOMAIN plan : ~(plan[i] \subseteq DOMAIN results)}
    IN  IF left = {} THEN {} ELSE plan[Min(left)]

FlowInit ==
    /\ EngineInit
    /\ ComponentIdle
    /\ RetryIdle
    /\ \E def \in FlowDefinitions :
          /\ PlanIdle(def)
          /\ drawn_results \in DrawnResults(def)
    /\ drawn_trigger \in DrawnTriggers
    /\ node_inputs = NotPrepared
    /\ run_output = NotPrepared
    /\ required_nodes = {}

\* lines 497-505: the inputs of the level's nodes
PrepareInputs ==
    /\ "inputs" \notin analysed
    /\ NextLevel(definition, drawn_results) # {}
    /\ analysed' = analysed \cup {"inputs"}
    /\ node_inputs' = [n \in NextLevel(definition, drawn_results) |->
                          _prepare_node_input(n, definition, drawn_results, drawn_trigger)]
    /\ UNCHANGED <<definition, plan_result, validation_result, cycle_result,
                   drawn_results, drawn_trigger, run_output, required_nodes,
                   engine_vars, retry_vars, component_vars>>

\* line 540: return self._prepare_workflow_output(context)
PrepareOutput ==
    /\ "output" \notin analysed
    /\ NextLevel(definition, drawn_results) = {}
    /\ analysed' = analysed \cup {"output"}
    /\ run_output' = _prepare_workflow_output(definition, drawn_results, "running")
    /\ UNCHANGED <<definition, plan_result, validation_result, cycle_result,
                   drawn_results, drawn_trigger, node_inputs, required_nodes,
                   engine_vars, retry_vars, component_vars>>

FlowNext == Plan \/ PrepareInputs \/ PrepareOutput

SpecFlow == FlowInit /\ [][FlowNext]_vars

\* the sources of the edges into n
Upstream(def, n) == {def.edges[i].source : i \in {j \in DOMAIN def.edges : def.edges[j].target = n}}

\* n has several incoming edges and all of them use the default source_output
SeveralDefaultEdges(def, n) ==
    LET incoming == {i \in DOMAIN def.edges : def.edges[i].target = n}
    IN  /\ Cardinality(incoming) >= 2
        /\ \A i \in incoming : def.edges[i].source_output = WholeOutput

(***************************************************************************)
(* C16.  The input prepared for a node with several incoming edges that    *)
(* use the default source_output holds the trigger payload under "trigger" *)
(* and every upstream node's full result under that node's id; the plan of *)
(* the diamond A->B, A->C, B->D, C->D is {A}, {B, C}, {D}.                  *)
(***************************************************************************)
C16_InputHoldsTriggerAndResults ==
    /\ "inputs" \in analysed =>
          \A n \in DOMAIN node_inputs :
             SeveralDefaultEdges(definition, n) =>
                /\ "trigger" \in DOMAIN node_inputs[n]
                /\ node_inputs[n]["trigger"] = drawn_trigger
                /\ \A u \in Upstream(definition, n) :
                      /\ u \in DOMAIN node_inputs[n]
                      /\ node_inputs[n][u] = drawn_results[u]
    /\ ("plan" \in analysed /\ definition = FlowDefinition("diamond")) =>
          /\ plan_result.ok
          /\ plan_result.plan = <<{"A"}, {"B", "C"}, {"D"}>>

\* the dotted-path extraction of a declared output from the node results
Extraction(output_def, results) ==
    IF output_def.node \in DOMAIN results
    THEN Extract(results[output_def.node], output_def.path)
    ELSE Null

(***************************************************************************)
(* C17.  When the definition declares outputs, the run result has a key    *)
(* for every declared output name, and its value is the dotted-path        *)
(* extraction from the source node's result, null when the path is         *)
(* missing.                                                                *)
(***************************************************************************)
C17_EveryDeclaredOutputPresent ==
    ("output" \in analysed /\ DOMAIN definition.outputs # {}) =>
        \A o \in DOMAIN definition.outputs :
            /\ o \in DOMAIN run_output
            /\ run_output[o] = Extraction(definition.outputs[o], drawn_results)

(***************************************************************************)
(* _is_node_required applied to every node of a registered definition:     *)
(* the drawn definitions that validation accepts, with every choice of the *)
(* nodes' required flags and with no output or one output naming a node.   *)
(***************************************************************************)
OutputChoices(def) ==
    {NoOutputs} \cup {[out |-> [node |-> n, path |-> WholeOutput]] : n \in NodeSet(def)}

RequiredDefinitions ==
    UNION {{[def EXCEPT !.required = r, !.outputs = o] :
               r \in [NodeSet(def) -> BOOLEAN], o \in OutputChoices(def)} :
           def \in {d \in DrawnDefinitions : _validate_workflow_def(d).ok}}

RequiredInit ==
    /\ EngineInit
    /\ ComponentIdle
    /\ RetryIdle
    /\ FlowIdle
    /\ \E def \in RequiredDefinitions : PlanIdle(def)

\* line 527: self._is_node_required(node_id, workflow_def), for each node
CheckRequired ==
    /\ "required" \notin analysed
    /\ analysed' = analysed \cup {"required"}
    /\ required_nodes' = {n \in NodeSet(definition) : _is_node_required(n, definition)}
    /\ UNCHANGED <<definition, plan_result, validation_result, cycle_result,
                   drawn_results, drawn_trigger, node_inputs, run_output,
                   engine_vars, retry_vars, component_vars>>

RequiredNext == CheckRequired

SpecRequired == RequiredInit /\ [][RequiredNext]_vars

\* m is marked required or a declared output names it
MarkedOrOutput(def, m) ==
    \/ def.required[m]
    \/ \E o \in DOMAIN def.outputs : def.outputs[o].node = m

(***************************************************************************)
(* C18.  For every node n of a registered definition: the engine treats n  *)
(* as required if and only if a path of zero or more edges leads from n to *)
(* a node that is marked required or that a declared output names.         *)
(***************************************************************************)
C18_RequiredIffFeedsRequired ==
    "required" \in analysed =>
        \A n \in NodeSet(definition) :
            n \in required_nodes <=>
                \E m \in {n} \cup Descendants(n, EdgePairs(definition)) :
                    MarkedOrOutput(definition, m)

\* a node that is not marked and that no output names is required because
\* it feeds one that an output names, and another node is not required
C18_Witness ==
    /\ "required" \in analysed
    /\ \E n \in required_nodes :
          /\ ~MarkedOrOutput(definition, n)
          /\ \E m \in Descendants(n, EdgePairs(definition)) :
                ~definition.required[m] /\ MarkedOrOutput(definition, m)
    /\ required_nodes # NodeSet(definition)

(***************************************************************************)
(* C19.  Once a node that is not required has failed, every downstream     *)
(* node that is executed afterwards receives null for each edge from the   *)
(* failed node, and the failure record is in no downstream input.          *)
(***************************************************************************)
C19_FailedUpstreamGivesNull ==
    \A e \in DOMAIN contexts :
        LET c == contexts[e]
            def == Definition(c.def)
        IN  \A i \in DOMAIN def.edges :
                LET edge == def.edges[i]
                    input == c.node_input[edge.target]
                IN  ( /\ c.node_results[edge.source] = "failed"
                      /\ input # NotPrepared ) =>
                        /\ RoutedKey(edge) \in DOMAIN input =>
                              input[RoutedKey(edge)] = Null
                        /\ FailureRecord \notin Range(input)

\* the errors _initialize_workflow_nodes raises
InitErrors ==
    {"missing type definition", "Failed to create node", "Failed to configure node",
     ConstructorError}

\* the run has been through _initialize_workflow_nodes and a node was not
\* initialized
InitFailed(c) ==
    \/ c.error \in InitErrors
    \/ c.status # "created" /\ c.active_nodes # NodeSet(Definition(c.def))

(***************************************************************************)
(* C20.  If creating or configuring a node fails during the run's          *)
(* initialization, the context's status is failed, no node's execute has   *)
(* been invoked in the run (no input was prepared either), the nodes       *)
(* initialized before the failing one included, and the step that fails    *)
(* sets the workflow's status to FAILED.                                   *)
(***************************************************************************)
C20_InitFailureIsFatal ==
    /\ [](\A e \in DOMAIN contexts :
            InitFailed(contexts[e]) =>
               /\ contexts[e].status = "failed"
               /\ contexts[e].error \in InitErrors
               /\ contexts[e].task = "raised"
               /\ \A n \in DOMAIN contexts[e].node_exec :
                     /\ contexts[e].node_exec[n] = "pending"
                     /\ contexts[e].node_input[n] = NotPrepared
                     /\ contexts[e].node_results[n] = None)
    /\ [][\A e \in DOMAIN contexts :
            ( /\ ~InitFailed(contexts[e])
              /\ InitFailed(contexts'[e]) ) =>
                 workflow_status'[contexts[e].workflow_id] = "FAILED"]_vars

\* configuring the second node of the pipeline failed: the run is failed,
\* the first node was initialized and nothing was executed
C20_Witness ==
    \E e \in DOMAIN contexts :
        /\ contexts[e].def = "pipeline"
        /\ contexts[e].error = "Failed to configure node"
        /\ contexts[e].active_nodes = {"a"}
        /\ contexts[e].status = "failed"
        /\ workflow_status["w1"] = "FAILED"
        /\ \A n \in DOMAIN contexts[e].node_exec : contexts[e].node_exec[n] = "pending"

\* the nodes of the level the run is at
CurrentLevel(c) == IF c.level = 0 THEN {} ELSE PlanOf(c)[c.level]

\* the run has resumed from the gather of the level it is at and has decided
\* to fail
DecidedToFail(c) == c.task = "raised" /\ c.level > 0

(***************************************************************************)
(* C21.  Within a level, a node's failure neither cancels nor skips its    *)
(* siblings: the step in which a node fails changes no other node and      *)
(* leaves the run waiting, and the engine decides (next level, completion  *)
(* or failure) only when every node of the level has ended in success or   *)
(* failure, also when a failed node is required.                           *)
(***************************************************************************)
C21_SiblingsRunToTheirEnd ==
    /\ [](\A e \in DOMAIN contexts :
            LET c == contexts[e]
            IN  /\ (DecidedToFail(c) \/ c.task = "finished") =>
                      \A n \in CurrentLevel(c) : c.node_exec[n] \in {"completed", "failed"}
                /\ \A n \in DOMAIN c.node_exec :
                      \A m \in EarlierNodes(c, n) :
                         Executed(c, n) => c.node_exec[m] \in {"completed", "failed"})
    /\ [][\A e \in DOMAIN contexts : \A n \in DOMAIN contexts[e].node_exec :
            ( /\ contexts[e].node_exec[n] = "running"
              /\ contexts'[e].node_exec[n] = "failed" ) =>
                 /\ \A m \in DOMAIN contexts[e].node_exec \ {n} :
                       contexts'[e].node_exec[m] = contexts[e].node_exec[m]
                 /\ contexts'[e].task = "suspended"
                 /\ contexts'[e].status = "running"]_vars

\* the required node a failed, its sibling x ran to completion, and only
\* then the run failed
C21_Witness ==
    \E e \in DOMAIN contexts :
        /\ contexts[e].def = "pipeline"
        /\ contexts[e].node_exec["a"] = "failed"
        /\ contexts[e].node_exec["x"] = "completed"
        /\ contexts[e].node_exec["y"] = "pending"
        /\ DecidedToFail(contexts[e])

\* the scheduler task is between two passes of its loop
SchedulerAlive == scheduler_task \in {"pending", "sleeping", "backoff"}

\* the step is a pass of the scheduler's loop that ended in a sleep
TickTaken ==
    /\ running
    /\ SchedulerAlive
    /\ scheduler_task' \in {"sleeping", "backoff"}
    /\ scheduler_task' # scheduler_task

\* the executions of workflow w that are in the table and not ended
ActiveRuns(w) ==
    {e \in active_executions :
        contexts[e].workflow_id = w /\ contexts[e].status \in {"created", "running"}}

(***************************************************************************)
(* C22.  While the engine runs, a pass of the scheduler launches every     *)
(* registered workflow that has a positive interval schedule, no running   *)
(* execution and no last_execution_time; for such a workflow that has a    *)
(* last_execution_time, the pass compares the times and launches it or     *)
(* leaves it for a later pass: it ends in the polling sleep, so the        *)
(* workflow is launched again and again.                                   *)
(***************************************************************************)
C22_LaunchedAgainWhenDue ==
    [][TickTaken =>
        \A w \in {v \in Scheduled : ActiveRuns(v) = {}} :
            /\ last_execution_time[w] = None =>
                  /\ workflow_status'[w] = "RUNNING"
                  /\ last_execution_time'[w] = "set"
                  /\ Len(contexts') > Len(contexts)
            /\ last_execution_time[w] # None => scheduler_task' = "sleeping"]_vars

(***************************************************************************)
(* C23.  The scheduler launches no execution of a workflow while another   *)
(* execution of that workflow is in the table with status created or       *)
(* running.  (A launch by the scheduler is the step that gives the stored  *)
(* definition its last_execution_time.)                                    *)
(***************************************************************************)
C23_NoOverlappingScheduledRun ==
    [][\A w \in DOMAIN last_execution_time :
          ( /\ last_execution_time[w] = None
            /\ last_execution_time'[w] = "set" ) => ActiveRuns(w) = {}]_vars

(***************************************************************************)
(* C24.  An error raised inside a pass of the scheduler does not end the   *)
(* scheduler: the pass ends in the back-off sleep, from which only a       *)
(* cancellation or the next pass leads away, the next pass can be taken    *)
(* (as long as the model's bound on executions allows what it launches),   *)
(* and while the engine is running the scheduler task has not ended.       *)
(***************************************************************************)
C24_SchedulerSurvivesErrors ==
    /\ [](running => SchedulerAlive)
    /\ []((running /\ scheduler_task = "backoff" /\ Len(contexts) < MaxExecutions) =>
             ENABLED SchedulerStep)
    /\ [][(TickTaken /\ TickFailures # {}) => scheduler_task' = "backoff"]_vars
    /\ [][scheduler_task = "backoff" =>
             scheduler_task' \in {"backoff", "sleeping", "backoff_cancel"}]_vars

\* the scheduled workflow has run once and completed, the next pass raised
\* and the scheduler is in its back-off sleep, the engine still running
C24_Witness ==
    /\ running
    /\ scheduler_task = "backoff"
    /\ "w5" \in DOMAIN workflows
    /\ workflow_status["w5"] = "COMPLETED"
    /\ last_execution_time["w5"] = "set"


(***************************************************************************)
(* One call of WorkflowValidator.validate_workflow.  The call ends in      *)
(* stage "returned", with the list of errors, or in stage "raised".        *)
(***************************************************************************)
NodeKinds == {"untyped", "unknown", "rejected", "raising", "valid"}
Wirings == {"none", "chain", "ring", "fanin", "broken"}

NodeId(i) == "n" \o ToString(i)

\* the workflows given to the validator: nodes of the drawn kinds under
\* each wiring
ValidatedWorkflows ==
    UNION {{[size |-> n, kinds |-> kinds, wiring |-> wiring] :
               kinds \in [1..n -> NodeKinds], wiring \in Wirings} :
           n \in 0..MaxNodes}

\* WorkflowDefinition.nodes: the keys in their order, and each node_def
NodeIdsOf(w) == [i \in 1..w.size |-> NodeId(i)]

KindOf(w, i) == w.kinds[i]

NodeDef(w, i) ==
    [type |-> CASE KindOf(w, i) = "untyped" -> None
                [] KindOf(w, i) = "unknown" -> "Bogus"
                [] OTHER -> "Worker",
     config |-> CASE KindOf(w, i) = "rejected" -> "invalid"
                  [] KindOf(w, i) = "raising" -> "raises"
                  [] OTHER -> "ok"]

Wire(i, j) == [from |-> <<NodeId(i)>>, to |-> <<NodeId(j), "in">>]

\* WorkflowDefinition.connections
ConnectionsOf(w) ==
    CASE w.wiring = "none" -> <<>>
      [] w.wiring = "chain" -> [i \in 1..(w.size - 1) |-> Wire(i, i + 1)]
      [] w.wiring = "ring" ->
            [i \in 1..w.size |-> IF i < w.size THEN Wire(i, i + 1) ELSE Wire(i, 1)]
      [] w.wiring = "fanin" -> [i \in 1..(w.size - 1) |-> Wire(i, w.size)]
      [] w.wiring = "broken" ->
            << [from |-> <<"ghost">>, to |-> <<NodeId(1), "in">>],
               [from |-> <<NodeId(1)>>, to |-> <<NodeId(2)>>],
               [from |-> None, to |-> <<NodeId(1), "in">>],
               [from |-> <<NodeId(1)>>, to |-> <<"ghost", "in">>] >>

Finding(kind, subject) == [kind |-> kind, subject |-> subject]

\* lines 141-171: what one pass of the loop of _validate_nodes gives: the
\* errors it appends, and what it raises.  Line 149 is outside the try of
\* lines 151-171, so that what get_node_class raises leaves the loop.
NodeFindings(node_id, node_def) ==
    IF node_def.type = None
    THEN [errors |-> <<Finding("missing_type", node_id)>>, raised |-> None]
    ELSE IF ~has_node_type(node_def.type)
    THEN [errors |-> <<Finding("unknown_type", node_id)>>, raised |-> None]
    ELSE IF get_node_class(node_def.type) = "AttributeError"
    THEN [errors |-> <<>>, raised |-> "AttributeError"]
    ELSE IF node_def.config = "raises"
    THEN [errors |-> <<Finding("instantiation_error", node_id)>>, raised |-> None]
    ELSE IF node_def.config = "invalid"
    THEN [errors |-> <<Finding("config_failed", node_id)>>, raised |-> None]
    ELSE [errors |-> <<>>, raised |-> None]

RECURSIVE NodesFrom(_, _, _)
\* lines 140-172: the loop from the i-th node on, errors being the list so
\* far; an exception ends it and the list is lost
NodesFrom(w, i, errors) ==
    IF i > w.size THEN [errors |-> errors, raised |-> None]
    ELSE LET f == NodeFindings(NodeId(i), NodeDef(w, i))
         IN  IF f.raised # None THEN [errors |-> <<>>, raised |-> f.raised]
             ELSE NodesFrom(w, i + 1, errors \o f.errors)

\* lines 138-172
_validate_nodes(w) == NodesFrom(w, 1, <<>>)

\* target_spec.split(".", 1) if "." in target_spec else (None, None)
TargetInputName(spec) == IF Len(spec) = 2 THEN spec[2] ELSE None

\* lines 188-206: what the i-th connection adds to the errors
ConnectionFindings(w, i) ==
    LET conn == ConnectionsOf(w)[i]
        ids == Range(NodeIdsOf(w))
    IN  IF conn.from = None \/ conn.to = None
        THEN <<Finding("missing_endpoint", i)>>
        ELSE (IF SourceNodeId(conn.from) \notin ids
              THEN <<Finding("bad_source", i)>> ELSE <<>>)
             \o (IF TargetNodeId(conn.to) = None \/ TargetNodeId(conn.to) \notin ids
                 THEN <<Finding("bad_target", i)>> ELSE <<>>)
             \o (IF TargetInputName(conn.to) = None
                 THEN <<Finding("no_input_name", i)>> ELSE <<>>)

RECURSIVE FindingsOfAll(_, _, _)
FindingsOfAll(w, flagged, k) ==
    IF k > Len(flagged) THEN <<>>
    ELSE ConnectionFindings(w, flagged[k]) \o FindingsOfAll(w, flagged, k + 1)

\* lines 180-187: the loop that instantiates the nodes of a registered type;
\* line 183 is outside the try of lines 184-187
InstancesRaise(w) ==
    \E i \in 1..w.size :
        /\ NodeDef(w, i).type # None
        /\ has_node_type(NodeDef(w, i).type)
        /\ get_node_class(NodeDef(w, i).type) = "AttributeError"

\* lines 174-211
_validate_connections(w) ==
    IF InstancesRaise(w) THEN [errors |-> <<>>, raised |-> "AttributeError"]
    ELSE [errors |-> FindingsOfAll(w, SelectSeq([i \in 1..Len(ConnectionsOf(w)) |-> i],
                                   LAMBDA i : ConnectionFindings(w, i) # <<>>), 1),
          raised |-> None]

\* an entered call of validate_workflow(workflow)
Validating(w) ==
    [workflow |-> w, stage |-> "entered", errors |-> <<>>, raised |-> None]

ValidateInit ==
    /\ EngineInit
    /\ RetryIdle
    /\ FlowIdle
    /\ PlanIdle(Definition("pipeline"))
    /\ node_status = <<>>
    /\ \E w \in ValidatedWorkflows : validation = Validating(w)

Returned(errors) == [validation EXCEPT !.stage = "returned", !.errors = errors]

\* an exception leaves validate_workflow, which catches WorkflowCycleError
\* only (lines 131-134)
ValidateRaised(error) == [validation EXCEPT !.stage = "raised", !.raised = error]

\* lines 131-134: the cycle that _check_for_cycles raises is appended
CycleFindings(w) ==
    LET cycle == _check_for_cycles(NodeIdsOf(w), ConnectionsOf(w))
    IN  IF cycle = <<>> THEN <<>> ELSE <<Finding("cycle", cycle)>>

\* WorkflowValidator.validate_workflow(workflow), lines 116-136
validate_workflow ==
    /\ validation.stage = "entered"
    /\ LET w == validation.workflow
           node_errors == _validate_nodes(w)
           connection_errors == _validate_connections(w)
       IN  validation' =
             IF w.size = 0 THEN Returned(<<Finding("no_nodes", None)>>)
             ELSE IF node_errors.raised # None THEN ValidateRaised(node_errors.raised)
             ELSE IF node_errors.errors # <<>> THEN Returned(node_errors.errors)
             ELSE IF connection_errors.raised # None
             THEN ValidateRaised(connection_errors.raised)
             ELSE Returned(connection_errors.errors \o CycleFindings(w))
    /\ UNCHANGED <<node_status, engine_vars, plan_vars, retry_vars, flow_vars>>

ValidateNext == validate_workflow

SpecValidate == ValidateInit /\ [][ValidateNext]_vars

\* the nodes of the validated workflow that are invalid on their own
InvalidNodes(w) == {NodeId(i) : i \in {j \in 1..w.size : KindOf(w, j) # "valid"}}

\* the nodes the returned list has a node error for
ReportedNodes(errors) ==
    {errors[k].subject : k \in {j \in DOMAIN errors : errors[j].kind \in
        {"missing_type", "unknown_type", "instantiation_error", "config_failed"}}}

(***************************************************************************)
(* C25.  A call of validate_workflow never raises, and when it has         *)
(* returned, every node of the workflow that is invalid on its own         *)
(* (missing type, unknown type, failing config) has its own error in the   *)
(* returned list.                                                          *)
(***************************************************************************)
C25_ValidateNeverRaises ==
    /\ validation.stage # "raised"
    /\ validation.stage = "returned" =>
         InvalidNodes(validation.workflow) \subseteq ReportedNodes(validation.errors)

(***************************************************************************)
(* register_workflow called with definitions that are sound, that have an  *)
(* edge to a node they do not define, and that declare an output of a node *)
(* they do not define, on an engine that is started and stopped, with the  *)
(* scheduler and the runs it launches.                                     *)
(***************************************************************************)
RegisterNames == {"pipeline", "ticker", "bogus", "cyclic", "dangling", "ghostout"}

NextRegister ==
    \/ \E d \in RegisterNames : Register(d)
    \/ start
    \/ stop
    \/ SchedulerStep
    \/ SchedulerCancelled
    \/ \E e \in ExecutionIds : StartRun(e)
    \/ \E e \in ExecutionIds : NodeStart(e, "a")
    \/ \E e \in ExecutionIds, ok \in BOOLEAN : NodeFinish(e, "a", ok)
    \/ \E e \in ExecutionIds : LevelDone(e)
    \/ \E e \in ExecutionIds : NodeCancelled(e, "a")
    \/ \E e \in ExecutionIds : DeliverCancel(e)
    \/ \E e \in ExecutionIds : CancelUnstarted(e)

SpecRegister == Init /\ [][NextRegister]_vars

\* every edge endpoint and every declared output's node is a node of def
RefersToOwnNodes(def) ==
    /\ \A i \in DOMAIN def.edges :
          def.edges[i].source \in NodeSet(def) /\ def.edges[i].target \in NodeSet(def)
    /\ \A o \in DOMAIN def.outputs : def.outputs[o].node \in NodeSet(def)

(***************************************************************************)
(* C26.  Every definition the engine has stored refers to its own nodes    *)
(* only: each edge's source and target and each declared output's node is  *)
(* a key of its nodes map (a definition with a dangling edge endpoint or a *)
(* dangling output node is rejected by register_workflow and not stored).  *)
(***************************************************************************)
C26_StoredDefinitionsReferToOwnNodes ==
    \A w \in DOMAIN workflows : RefersToOwnNodes(Definition(workflows[w]))

\* the executions the step creates
Created == {e \in DOMAIN contexts' : e \notin DOMAIN contexts}

(***************************************************************************)
(* C27.  execute_workflow returns once the run is scheduled as its own     *)
(* task, without waiting for it: in the state it returns in, the new       *)
(* execution is in active_executions, the status of its workflow is        *)
(* RUNNING, its task has not taken a step and none of its nodes has been   *)
(* executed.                                                               *)
(***************************************************************************)
C27_ExecuteReturnsBeforeTheRun ==
    [][(Created # {} /\ raised' = NoException) =>
         \A e \in Created :
            /\ e \in active_executions'
            /\ workflow_status'[contexts'[e].workflow_id] = "RUNNING"
            /\ contexts'[e].task = "pending"
            /\ contexts'[e].status = "created"
            /\ \A n \in DOMAIN contexts'[e].node_exec :
                  contexts'[e].node_exec[n] = "pending"]_vars

\* execute_workflow has just returned the id of a second execution while
\* the first one is in the middle of its run
C27_Witness ==
    /\ raised = NoException
    /\ Len(contexts) = 2
    /\ contexts[2].task = "pending" /\ 2 \in active_executions
    /\ workflow_status[contexts[2].workflow_id] = "RUNNING"
    /\ contexts[1].task = "suspended"
    /\ \E n \in DOMAIN contexts[1].node_exec : contexts[1].node_exec[n] = "running"

\* the executions whose nodes the step invokes stop() on
NodesStoppedBy ==
    {e \in DOMAIN contexts : contexts'[e].stopped_nodes # contexts[e].stopped_nodes}

(***************************************************************************)
(* C28.  A step that stops an execution invokes stop() on every node of    *)
(* its active_nodes, also on those that follow a node whose stop() raised, *)
(* and the call returns without an exception.                              *)
(***************************************************************************)
C28_EveryActiveNodeIsStopped ==
    [][\A e \in NodesStoppedBy :
          /\ contexts'[e].stopped_nodes = contexts[e].active_nodes
          /\ raised' = NoException]_vars

(***************************************************************************)
(* NodeBase (core/node_base.py): the status of node instances under the    *)
(* methods of the base class that assign it, called in any order.          *)
(***************************************************************************)
NodeInstances == 1..MaxInstances

\* line 67: self.status = NodeStatus.PENDING
NodeInit ==
    /\ EngineInit
    /\ RetryIdle
    /\ FlowIdle
    /\ PlanIdle(Definition("pipeline"))
    /\ validation = NoValidation
    /\ node_status = [i \in NodeInstances |-> "pending"]

\* lines 114-126: NodeBase.setup, reached through super().setup(), on an
\* instance in any status; it does not suspend between its two assignments,
\* so that no other step sees the status initializing
setup(i) ==
    /\ node_status' = [node_status EXCEPT ![i] = "ready"]
    /\ UNCHANGED <<validation, engine_vars, plan_vars, retry_vars, flow_vars>>

\* lines 153-163: NodeBase.stop
node_stop(i) ==
    /\ node_status' = [node_status EXCEPT ![i] = "stopped"]
    /\ UNCHANGED <<validation, engine_vars, plan_vars, retry_vars, flow_vars>>

\* lines 165-183: NodeBase._handle_error
_handle_error(i) ==
    /\ node_status' = [node_status EXCEPT ![i] = "failed"]
    /\ UNCHANGED <<validation, engine_vars, plan_vars, retry_vars, flow_vars>>

NodeNext ==
    \E i \in NodeInstances : setup(i) \/ node_stop(i) \/ _handle_error(i)

SpecNode == NodeInit /\ [][NodeNext]_vars

\* lines 25-34: the position of a status in the lifecycle
LifecycleRank(status) ==
    CASE status = "pending" -> 0
      [] status = "initializing" -> 1
      [] status = "ready" -> 2
      [] status = "running" -> 3
      [] status \in {"completed", "failed", "skipped", "stopped"} -> 4

TerminalStatuses == {"completed", "failed", "skipped"}

(***************************************************************************)
(* C29.  The status of a node instance only moves forward through the      *)
(* lifecycle, and it becomes stopped only from a status that is not        *)
(* terminal: an instance that is completed, failed or skipped keeps its    *)
(* status when stop() is invoked on it.                                    *)
(***************************************************************************)
C29_StatusOnlyMovesForward ==
    [][\A i \in NodeInstances :
          node_status'[i] # node_status[i] =>
             /\ LifecycleRank(node_status'[i]) >= LifecycleRank(node_status[i])
             /\ node_status[i] \notin TerminalStatuses]_vars

\* the number of invocations of the method among the first k calls
CallsBefore(calls, method, k) ==
    Cardinality({j \in 1..k : calls[j] = method})

\* the position of the first invocation of execute
FirstExecute(calls) == Min({j \in DOMAIN calls : calls[j] = "execute"})

(***************************************************************************)
(* C30.  On every node instance of a run whose execute has been invoked,   *)
(* the engine has invoked validate_config exactly once and setup at least  *)
(* once before the first execute.                                          *)
(***************************************************************************)
C30_ValidatedAndSetUpBeforeExecute ==
    \A e \in DOMAIN contexts : \A n \in DOMAIN contexts[e].node_calls :
        LET calls == contexts[e].node_calls[n] IN
        "execute" \in Range(calls) =>
            /\ CallsBefore(calls, "validate_config", FirstExecute(calls) - 1) = 1
            /\ CallsBefore(calls, "setup", FirstExecute(calls) - 1) >= 1

\* the edge is the only one into its target that names its target_input, and
\* that key is not the one of the trigger payload
OwnKey(def, i) ==
    /\ def.edges[i].target_input # "trigger"
    /\ \A j \in DOMAIN def.edges :
          (j # i /\ def.edges[j].target = def.edges[i].target) =>
              /\ def.edges[j].target_input # def.edges[i].target_input
              /\ def.edges[j].source # def.edges[i].target_input

(***************************************************************************)
(* C31.  For every edge whose source has a result, the input prepared for  *)
(* the edge's target holds, under the edge's target_input (the source node *)
(* id when the edge gives none), the value routed from the source: its     *)
(* full result when source_output is "output", otherwise the dotted-path   *)
(* extraction.                                                             *)
(***************************************************************************)
C31_RoutedUnderTargetInput ==
    "inputs" \in analysed =>
        \A i \in DOMAIN definition.edges :
            LET edge == definition.edges[i] IN
            (/\ edge.target \in DOMAIN node_inputs
             /\ edge.source \in DOMAIN drawn_results
             /\ OwnKey(definition, i)) =>
                /\ edge.target_input \in DOMAIN node_inputs[edge.target]
                /\ node_inputs[edge.target][edge.target_input] =
                      (IF edge.source_output = WholeOutput
                       THEN drawn_results[edge.source]
                       ELSE Extract(drawn_results[edge.source], edge.source_output))

\* how often the engine has invoked execute on the instance of node n
Executions(c, n) == CallsBefore(c.node_calls[n], "execute", Len(c.node_calls[n]))

\* the executions whose run fails in the step
FailingIn == {e \in DOMAIN contexts : contexts[e].status # "failed" /\ contexts'[e].status = "failed"}

(***************************************************************************)
(* C32.  Within one execution the engine invokes each node's execute at    *)
(* most once, and the step in which a run fails (handle_workflow_error     *)
(* included, also with error_handling.retry.max_retries > 0) creates no    *)
(* execution and executes no node.                                         *)
(***************************************************************************)
C32_NoNodeExecutedTwice ==
    [][/\ \A e \in DOMAIN contexts' : \A n \in DOMAIN contexts'[e].node_calls :
             Executions(contexts'[e], n) <= 1
       /\ FailingIn # {} =>
             /\ DOMAIN contexts' = DOMAIN contexts
             /\ \A e \in DOMAIN contexts : \A n \in DOMAIN contexts[e].node_calls :
                   Executions(contexts'[e], n) = Executions(contexts[e], n)]_vars

\* a run of the definition that configures two retries has failed after its
\* required node was executed, and the handler counted a retry
C32_Witness ==
    \E e \in DOMAIN contexts :
        /\ contexts[e].status = "failed"
        /\ ErrorHandling(contexts[e].def).max_retries > 0
        /\ contexts[e].retry_count = 1
        /\ \E n \in DOMAIN contexts[e].node_calls :
              contexts[e].node_exec[n] = "failed" /\ Executions(contexts[e], n) = 1



(***************************************************************************)
(* Two concurrent runs of the pipeline workflow: start(), execute() calls, *)
(* the scheduler's passes and the steps of the runs                        *)
(***************************************************************************)
NextPair ==
    \/ start
    \/ SchedulerStep
    \/ Execute("pipeline")
    \/ \E e \in ExecutionIds : StartRun(e)
    \/ \E e \in ExecutionIds, n \in CatalogueNodes : NodeStart(e, n)
    \/ \E e \in ExecutionIds, n \in CatalogueNodes, ok \in BOOLEAN : NodeFinish(e, n, ok)
    \/ \E e \in ExecutionIds : LevelDone(e)

SpecPair == Init /\ [][NextPair]_vars

\* the input of node n was prepared in the run (lines 503-505)
Prepared(c, n) == n \in DOMAIN c.node_input /\ c.node_input[n] # NotPrepared

\* two runs of one definition with the same trigger data in which node n was
\* given its input and each upstream node of n ended in the same way
SameUpstream(c1, c2, n) ==
    /\ c1.def = c2.def
    /\ c1.trigger_data = c2.trigger_data
    /\ Prepared(c1, n) /\ Prepared(c2, n)
    /\ \A u \in Upstream(Definition(c1.def), n) \cap DOMAIN c1.node_exec :
          /\ c1.node_exec[u] = c2.node_exec[u]
          /\ c1.node_raised[u] = c2.node_raised[u]

\* C33: data propagation is deterministic: two runs of the same definition
\* with the same trigger data whose upstream nodes ended in the same way give
\* a node the same input, whatever the order in which the nodes of a level
\* completed
C33_SameUpstreamSameInput ==
    \A e1 \in DOMAIN contexts, e2 \in DOMAIN contexts, n \in CatalogueNodes :
        SameUpstream(contexts[e1], contexts[e2], n)
        => contexts[e1].node_input[n] = contexts[e2].node_input[n]

\* two runs in which a and x both returned, a before x in the one and x
\* before a in the other, have both given y its input
C33_Witness ==
    \E e1 \in DOMAIN contexts, e2 \in DOMAIN contexts :
        /\ SameUpstream(contexts[e1], contexts[e2], "y")
        /\ contexts[e1].node_exec["a"] = "completed"
        /\ contexts[e1].node_exec["x"] = "completed"
        /\ SubSeq(contexts[e1].finished, 1, 2) = <<"a", "x">>
        /\ SubSeq(contexts[e2].finished, 1, 2) = <<"x", "a">>


(***************************************************************************)
(* The planner applied to definitions whose edges may name a source that   *)
(* is no node of the definition.                                           *)
(***************************************************************************)
\* a drawn definition with one more edge, from an undefined node to t
WithOutsideSource(def, t) == [def EXCEPT !.edges = Append(@, Edge("ghost", t))]

OpenDefinitions ==
    DrawnDefinitions \cup
    UNION {{WithOutsideSource(def, t) : t \in NodeSet(def)} : def \in DrawnDefinitions}

OpenInit ==
    /\ EngineInit
    /\ ComponentIdle
    /\ RetryIdle
    /\ FlowIdle
    /\ \E def \in OpenDefinitions : PlanIdle(def)

OpenNext == Plan \/ Validate

SpecOpen == OpenInit /\ [][OpenNext]_vars

\* the edges of the definition between its own nodes
RestrictedPairs(def) ==
    {p \in EdgePairs(def) : p[1] \in NodeSet(def) /\ p[2] \in NodeSet(def)}

\* the edge relation restricted to the defined nodes contains a cycle
RestrictedCyclic(def) ==
    \E n \in NodeSet(def) : n \in Descendants(n, RestrictedPairs(def))

\* C34: the planner fails with the cyclic-dependency error only when the edge
\* relation restricted to the defined nodes contains a cycle; for every other
\* definition it returns a plan
C34_CyclicErrorOnlyForCycles ==
    ("plan" \in analysed /\ ~RestrictedCyclic(definition)) => plan_result.ok


(***************************************************************************)
(* C35.  max_retries = N is the number of retries: a wrapped function      *)
(* whose first N + 1 invocations all fail with retryable exceptions is     *)
(* invoked N + 1 times (N retries, N sleeps) before the wrapper raises.    *)
(***************************************************************************)
C35_RetriedMaxRetriesTimes ==
    (/\ WrapperDone
     /\ LeadingFailures >= wrapped.max_retries + 1) =>
        /\ wrapper.state = "raised"
        /\ wrapper.invocations = wrapped.max_retries + 1
        /\ wrapper.sleeps = wrapped.max_retries

(***************************************************************************)
(* The decorator with its default delays around a function that always     *)
(* fails with a retryable exception, for retry limits large enough for the *)
(* exponential delay to reach max_delay.                                   *)
(***************************************************************************)
LongRetries == 2 * MaxRetries

BackoffInit ==
    /\ EngineInit
    /\ ComponentIdle
    /\ FlowIdle
    /\ PlanIdle(Definition("pipeline"))
    /\ \E retries \in 0..LongRetries, exceptions \in RetryOnChoices,
          predicate \in RetryIfChoices :
          wrapped = [max_retries |-> retries, retry_on |-> exceptions,
                     retry_if |-> predicate,
                     outcomes |-> [i \in 1..LongRetries |-> "timeout"]]
    /\ wrapper = WrapperEntered

SpecBackoff == BackoffInit /\ [][RetryNext]_vars

\* C36: max_delay is the maximum delay: the time slept before a retry never
\* exceeds max_delay, for every attempt and every jitter factor (wait is in
\* tenths of a second, max_delay in seconds)
C36_SleepWithinMaxDelay ==
    wrapper.sleeps > 0 => wrapper.wait <= max_delay * 10


\* the terminal statuses of an execution context
ContextTerminal == {"completed", "failed", "cancelled"}

\* an assignment to context.status: line 338, then line 359, 380 or 399
ContextMove(s, t) ==
    \/ s = "created" /\ t = "running"
    \/ s = "running" /\ t \in ContextTerminal

(***************************************************************************)
(* C37.  An execution context starts as created and its status only moves  *)
(* created -> running -> completed, failed or cancelled: every assignment  *)
(* to it, the two of one task step included, is one of these moves; a      *)
(* terminal status never changes again, and a context whose status is      *)
(* terminal has its end_time set.                                          *)
(***************************************************************************)
C37_ContextStatusMovesForward ==
    /\ [](\A e \in DOMAIN contexts :
            LET log == contexts[e].status_log
            IN  /\ log[1] = "created"
                /\ contexts[e].status = log[Len(log)]
                /\ \A i \in 1..(Len(log) - 1) : ContextMove(log[i], log[i + 1])
                /\ contexts[e].status \in ContextTerminal => contexts[e].end_time)
    /\ [][/\ \A e \in DOMAIN contexts' \ DOMAIN contexts :
               contexts'[e].status_log = <<"created">>
          /\ \A e \in DOMAIN contexts :
               /\ Len(contexts'[e].status_log) >= Len(contexts[e].status_log)
               /\ SubSeq(contexts'[e].status_log, 1, Len(contexts[e].status_log))
                     = contexts[e].status_log
               /\ contexts[e].status \in ContextTerminal =>
                     contexts'[e].status = contexts[e].status]_vars

\* a run failed in the task step that had set it running: it went through
\* running on its way from created to failed
C37_Witness ==
    \E e \in DOMAIN contexts :
        /\ contexts[e].status_log = <<"created", "running", "failed">>
        /\ contexts[e].level = 0
        /\ contexts[e].end_time


(***************************************************************************)
(* C38.  A call of execute() that raises leaves no entry for the execution *)
(* in active_executions and does not set the workflow's status to RUNNING. *)
(***************************************************************************)
C38_RaisingExecuteLeavesNothing ==
    [][raised' # NoException =>
          /\ active_executions' \subseteq active_executions
          /\ \A w \in DOMAIN workflow_status' :
                workflow_status'[w] = "RUNNING" =>
                    (w \in DOMAIN workflow_status /\ workflow_status[w] = "RUNNING")]_vars

(***************************************************************************)
(* C39.  stop(execution_id) for an id that is not in active_executions     *)
(* (unknown, or terminated and removed) changes nothing: no workflow       *)
(* status is set, no task is cancelled, no node's stop() is invoked.       *)
(***************************************************************************)
C39_StopOfUnknownIdChangesNothing ==
    [][\A e \in ExecutionIds :
          (e \notin active_executions /\ Stop(e)) =>
              UNCHANGED <<contexts, workflow_status, active_executions>>]_vars

\* stop_workflow_execution was called with the id of a run that had completed
\* and been removed, and with an id no execution has: no stop has reached the
\* nodes of the run, its task or its workflow's status
C39_Witness ==
    \E e \in DOMAIN contexts, u \in ExecutionIds \ DOMAIN contexts :
        /\ {e, u} \subseteq unknown_stops
        /\ ~contexts[e].must_cancel
        /\ e \notin active_executions
        /\ contexts[e].status = "completed"
        /\ contexts[e].stopped_nodes = {}
        /\ workflow_status[contexts[e].workflow_id] = "COMPLETED"
        /\ raised = NoException


(***************************************************************************)
(* The engine of SpecRun under a fair event loop: a task that is ready to  *)
(* take a step takes it, a pending cancellation is delivered, every node's *)
(* execute ends, and the engine's caller keeps calling.                    *)
(***************************************************************************)
FairRun ==
    /\ WF_vars(NextRun)
    /\ \A e \in ExecutionIds :
          /\ WF_vars(StartRun(e))
          /\ WF_vars(LevelDone(e))
          /\ WF_vars(DeliverCancel(e))
          /\ WF_vars(CancelUnstarted(e))
          /\ \A n \in CatalogueNodes :
                /\ WF_vars(NodeStart(e, n))
                /\ WF_vars(NodeCancelled(e, n))
                /\ WF_vars(\E ok \in BOOLEAN : NodeFinish(e, n, ok))

SpecRunFair == Init /\ [][NextRun]_vars /\ FairRun

\* execute() has created the task of the run
LaunchedRun(e) == e \in DOMAIN contexts /\ contexts[e].task # None

\* C40: every run that was launched eventually reaches a terminal context
\* status (completed, failed or cancelled), whether or not stop(execution_id)
\* is called on it
C40_LaunchedRunTerminates ==
    \A e \in ExecutionIds :
        LaunchedRun(e) ~> (e \in DOMAIN contexts /\ contexts[e].status \in ContextTerminal)

=============================================================================
